---- MODULE Spec2Model ----
(***************************************************************************)
(* A model of aloxide: the Ruby version model (lib/src/version.rs) and the *)
(* staged build of Ruby (lib/src/src/build.rs).                            *)
(*                                                                         *)
(* Strings are sequences of one-character strings, so that splitting,      *)
(* integer parsing and formatting are computed character by character.     *)
(* An Option<T> is a sequence of length 0 (None) or 1 (Some(x)).           *)
(***************************************************************************)
EXTENDS Integers, Sequences, FiniteSets, TLC

VARIABLES
    \* ---- the build (RubyBuilder) ----
    host,           \* the platform: is it Windows, and is nmake found for the target
    fs,             \* which marker files exist: configure script, Makefile, ruby binary
    target_msvc,    \* RubyBuilder.target_msvc
    builder,        \* the force flags of the RubyBuilder being set up
    pc,             \* position of the caller / of RubyBuilder::build
    run_autoconf,   \* local of build
    run_configure,  \* local of build
    run_make,       \* local of build
    events,         \* processes spawned by the current build call, in order
    result,         \* what the current build call returned
    start_fs,       \* the marker files as they were when the current call began
    calls,          \* number of build calls begun
    prev,           \* the previous build call: its result and its events
    \* ---- the version model (Version, VersionParser) ----
    vpc,            \* position of the version scenario
    ver,            \* Some(the constructed Version), None when the text is the caller's
    text,           \* a string: rendered by Display, or given by the caller
    parser,         \* the VersionParser's flags
    parsed,         \* the result of VersionParser::parse
    \* ---- the ordering of versions (impl Ord for Version) ----
    opc,            \* position of the ordering scenario
    va,             \* the left version of a comparison
    vb,             \* the right version of a comparison
    ord,            \* the Ordering that va.cmp(&vb) returned
    \* ---- linking (link::link) ----
    lpc,            \* position of link
    static_lib,     \* the argument static_lib of link
    rbconfig,       \* RbConfig::CONFIG of the ruby at hand, for the two LIBRUBYARG keys
    lenv,           \* the host: is it Linux, what OUT_DIR holds, the symlink in deps
    target,         \* RbConfig's target, as link read it
    args,           \* the value read under LIBRUBYARG_STATIC or LIBRUBYARG_SHARED
    so_libs,        \* the value read under SOLIBS
    aux_libs,       \* the value read under MAINLIBS or LIBS, after the "nil" test
    dy_libs,        \* the HashSet dy_libs
    ruby_lib,       \* the local ruby_lib
    todo,           \* the members of dy_libs the loop over it has not visited yet
    args_iter,      \* the tokens of args that args_iter has not yielded yet
    queries,        \* the configuration keys asked of ruby, in order
    out,            \* the directives printed for cargo, in order
    lresult,        \* what link returned, or that it panicked
    \* ---- unpacking (archive::is_dir) ----
    apc,            \* position of the loop body of _unpack
    header,         \* the header of the entry at hand: its type and its name field
    is_dir_ret,     \* what is_dir(&header) returned, or that it panicked
    made,           \* what _unpack made of the entry: a directory or a file
    \* ---- downloading (RubySrcDownloader) ----
    dpc,            \* position of the caller / of RubySrcDownloader::download
    downloader,     \* the fields of the RubySrcDownloader being set up
    src_dir,        \* the directory dst_dir/ruby-<version>: absent, partial or whole
    archives,       \* the archive file in each archive directory: absent, partial or whole
    cache_home,     \* does dirs::cache_dir() give a directory
    archive_dir,    \* the local archive_dir of download
    remove_archive, \* is the local remove_archive a Some(RemoveFileHandle)
    dev,            \* what the current download call did to the world, in order
    dresult,        \* what the current download call returned
    dstart,         \* src_dir and archives as they were when the current call began
    dcalls          \* number of download calls begun

buildVars == <<host, fs, target_msvc, builder, pc, run_autoconf, run_configure, run_make,
               events, result, start_fs, calls, prev>>
versionVars == <<vpc, ver, text, parser, parsed>>
orderVars == <<opc, va, vb, ord>>
linkVars == <<lpc, static_lib, rbconfig, lenv, target, args, so_libs, aux_libs, dy_libs, ruby_lib,
              todo, args_iter, queries, out, lresult>>
archiveVars == <<apc, header, is_dir_ret, made>>
downloadVars == <<dpc, downloader, src_dir, archives, cache_home, archive_dir, remove_archive, dev,
                  dresult, dstart, dcalls>>
vars == <<host, fs, target_msvc, builder, pc, run_autoconf, run_configure, run_make,
          events, result, start_fs, calls, prev, vpc, ver, text, parser, parsed,
          opc, va, vb, ord,
          lpc, static_lib, rbconfig, lenv, target, args, so_libs, aux_libs, dy_libs, ruby_lib,
          todo, args_iter, queries, out, lresult,
          apc, header, is_dir_ret, made,
          dpc, downloader, src_dir, archives, cache_home, archive_dir, remove_archive, dev,
          dresult, dstart, dcalls>>

----------------------------------------------------------------------------
(* Bounds of the model *)

\* a link-argument string holds up to MaxArgs tokens
MaxArgs == 2

\* SOLIBS, MAINLIBS and LIBS hold up to MaxLibs tokens
MaxLibs == 1

\* the name of an archive entry holds up to MaxName bytes that are enumerated
MaxName == 2

\* download is called at most MaxDownloads times, each on a new downloader
MaxDownloads == 2

\* segment values 0..MaxSeg are enumerated, next to the multi-digit ones below
MaxSeg == 2
\* caller-supplied strings: every string over InputAlphabet up to this length
MaxLen == 4
\* build calls made one after the other on the same directories
MaxCalls == 2
\* segment values 0..MaxOrdSeg of the versions that are compared
MaxOrdSeg == 1

\* u16::MAX
U16Max == 65535

None == <<>>
Some(x) == <<x>>

----------------------------------------------------------------------------
(* Strings and integers *)

DigitChars == <<"0", "1", "2", "3", "4", "5", "6", "7", "8", "9">>

IsDigit(c) == \E i \in 1..10 : DigitChars[i] = c

DigitVal(c) == (CHOOSE i \in 1..10 : DigitChars[i] = c) - 1

\* Display for u16: decimal, no sign, no leading zeros
RECURSIVE ToDigits(_)
ToDigits(n) ==
    IF n < 10 THEN <<DigitChars[n + 1]>>
    ELSE ToDigits(n \div 10) \o <<DigitChars[(n % 10) + 1]>>

\* a plausible slip: arithmetic that wraps at 16 bits
RECURSIVE parse_digits_wrapping(_, _)
parse_digits_wrapping(s, acc) ==
    IF s = <<>> THEN [ok |-> TRUE, val |-> acc]
    ELSE IF ~IsDigit(s[1]) THEN [ok |-> FALSE, kind |-> "InvalidDigit"]
    ELSE parse_digits_wrapping(Tail(s), (acc * 10 + DigitVal(s[1])) % (U16Max + 1))

\* str::parse::<u16>: an optional leading '+', then one or more decimal digits,
\* read left to right with checked arithmetic
RECURSIVE parse_digits(_, _)
parse_digits(s, acc) ==
    IF s = <<>> THEN [ok |-> TRUE, val |-> acc]
    ELSE IF ~IsDigit(s[1]) THEN [ok |-> FALSE, kind |-> "InvalidDigit"]
    ELSE LET n == acc * 10 + DigitVal(s[1])
         IN  IF n > U16Max THEN [ok |-> FALSE, kind |-> "PosOverflow"]
             ELSE parse_digits(Tail(s), n)

parse_u16(s) ==
    IF s = <<>> THEN [ok |-> FALSE, kind |-> "Empty"]
    ELSE IF Len(s) = 1 /\ s[1] \in {"+", "-"} THEN [ok |-> FALSE, kind |-> "InvalidDigit"]
    ELSE IF s[1] = "+" THEN parse_digits(Tail(s), 0)
    ELSE parse_digits(s, 0)

\* memchr: the index of the first occurrence of byte in s (1-based), 0 for None
memchr(byte, s) ==
    IF \E i \in 1..Len(s) : s[i] = byte
    THEN CHOOSE i \in 1..Len(s) : s[i] = byte /\ \A j \in 1..(i - 1) : s[j] # byte
    ELSE 0

\* a plausible slip: the last occurrence instead of the first
split_at_last(s, byte) ==
    IF \E i \in 1..Len(s) : s[i] = byte
    THEN LET i == CHOOSE i \in 1..Len(s) : s[i] = byte /\ \A j \in (i + 1)..Len(s) : s[j] # byte
         IN  <<SubSeq(s, 1, i - 1), Some(SubSeq(s, i + 1, Len(s)))>>
    ELSE <<s, None>>

\* split_at inside VersionParser::parse: (head, Some(tail)) at the first byte, else (s, None)
split_at(s, byte) ==
    LET index == memchr(byte, s)
    IN  IF index # 0
        THEN <<SubSeq(s, 1, index - 1), Some(SubSeq(s, index + 1, Len(s)))>>
        ELSE <<s, None>>

----------------------------------------------------------------------------
(* Version *)

Version(major, minor, teeny, pre) ==
    [major |-> major, minor |-> minor, teeny |-> teeny, pre |-> pre]

\* impl Display for Version
Display(v) ==
    ToDigits(v.major) \o <<".">> \o ToDigits(v.minor) \o <<".">> \o ToDigits(v.teeny)
    \o (IF v.pre # None THEN <<"-">> \o v.pre[1] ELSE <<>>)

ParseOk(v) == [ok |-> TRUE, version |-> v]
ParseErr(e, k) == [ok |-> FALSE, err |-> e, int |-> k]

\* a plausible slip: a missing teeny is never reported
parse_minor_teeny_optional(self, s, major, pre) ==
    LET b == split_at(s, ".")
        minor == parse_u16(b[1])
        rest  == IF b[2] # None THEN b[2][1] ELSE s
        teeny == parse_u16(rest)
    IN  IF ~minor.ok THEN ParseErr("MinorInt", minor.kind)
        ELSE IF ~teeny.ok THEN ParseErr("TeenyInt", teeny.kind)
        ELSE ParseOk(Version(major, minor.val, teeny.val, pre))

\* a plausible slip: the teeny segment is parsed before the minor segment
parse_minor_teeny_swapped(self, s, major, pre) ==
    LET b == split_at(s, ".")
    IN  IF b[2] = None /\ self.require_teeny THEN ParseErr("TeenyMissing", "none")
        ELSE LET minor == parse_u16(b[1])
                 rest  == IF b[2] # None THEN b[2][1] ELSE s
                 teeny == parse_u16(rest)
             IN  IF ~teeny.ok THEN ParseErr("TeenyInt", teeny.kind)
                 ELSE IF ~minor.ok THEN ParseErr("MinorInt", minor.kind)
                 ELSE ParseOk(Version(major, minor.val, teeny.val, pre))

\* VersionParser::parse from the second segment on (lines 299-327); s is what
\* follows the first '.', and is only replaced when a second '.' is found
parse_minor_teeny(self, s, major, pre) ==
    LET b == split_at(s, ".")
    IN  IF b[2] = None /\ self.require_teeny THEN ParseErr("TeenyMissing", "none")
        ELSE LET minor == parse_u16(b[1])
                 rest  == IF b[2] # None THEN b[2][1] ELSE s
                 teeny == parse_u16(rest)
             IN  IF ~minor.ok THEN ParseErr("MinorInt", minor.kind)
                 ELSE IF ~teeny.ok THEN ParseErr("TeenyInt", teeny.kind)
                 ELSE ParseOk(Version(major, minor.val, teeny.val, pre))

\* VersionParser::parse
parse(self, s0) ==
    LET p   == split_at(s0, "-")
        pre == p[2]
        s   == p[1]
        a   == split_at(s, ".")
        major == parse_u16(a[1])
    IN  IF a[2] = None /\ self.require_minor THEN ParseErr("MinorMissing", "none")
        ELSE IF ~major.ok THEN ParseErr("MajorInt", major.kind)
        ELSE IF a[2] # None THEN parse_minor_teeny(self, a[2][1], major.val, pre)
        ELSE ParseOk(Version(major.val, 0, 0, pre))

\* VersionParser::default / new, require_minor(), require_all()
ParserDefault == [require_minor |-> FALSE, require_teeny |-> FALSE]
ParserRequireMinor(self) == [self EXCEPT !.require_minor = TRUE]
ParserRequireAll(self) == [require_minor |-> TRUE, require_teeny |-> TRUE]

\* impl FromStr for Version: the default parser
from_str(s) == parse(ParserDefault, s)

\* the characters of the model in the order of their bytes
AsciiOrder ==
    <<"+", "-", ".", "/", "0", "1", "2", "3", "4", "5", "6", "7", "8", "9",
      "C", "F", "L", "W", "a", "b", "c", "d", "e", "f", "i", "k", "l", "m", "n", "o",
      "p", "r", "s", "t", "u", "v", "w", "x", "y", "z">>

Byte(c) == CHOOSE i \in 1..Len(AsciiOrder) : AsciiOrder[i] = c

\* Ord for u16 and for u8
int_cmp(x, y) == IF x < y THEN "Less" ELSE IF x > y THEN "Greater" ELSE "Equal"

\* Ord for str: byte by byte, a proper prefix is less
RECURSIVE str_cmp(_, _)
str_cmp(a, b) ==
    IF a = <<>> /\ b = <<>> THEN "Equal"
    ELSE IF a = <<>> THEN "Less"
    ELSE IF b = <<>> THEN "Greater"
    ELSE IF a[1] # b[1] THEN int_cmp(Byte(a[1]), Byte(b[1]))
    ELSE str_cmp(Tail(a), Tail(b))

\* str::starts_with("rc")
starts_with_rc(a) == Len(a) >= 2 /\ a[1] = "r" /\ a[2] = "c"

\* a plausible slip: the order of Option, where None is the least
pre_cmp_derived(a, b) ==
    IF a = None /\ b = None THEN "Equal"
    ELSE IF a = None THEN "Less"
    ELSE IF b = None THEN "Greater"
    ELSE IF starts_with_rc(a[1]) = starts_with_rc(b[1]) THEN str_cmp(a[1], b[1])
    ELSE IF starts_with_rc(a[1]) THEN "Greater"
    ELSE "Less"

\* a plausible slip: two tags are always compared as strings
pre_cmp_no_rc(a, b) ==
    IF a = None /\ b = None THEN "Equal"
    ELSE IF a = None THEN "Greater"
    ELSE IF b = None THEN "Less"
    ELSE str_cmp(a[1], b[1])

\* a plausible slip: a tag that begins with "rc" wins before the other is looked at
pre_cmp_rc_first(a, b) ==
    IF a = None /\ b = None THEN "Equal"
    ELSE IF a = None THEN "Greater"
    ELSE IF b = None THEN "Less"
    ELSE IF starts_with_rc(a[1]) THEN "Greater"
    ELSE IF starts_with_rc(b[1]) THEN "Less"
    ELSE str_cmp(a[1], b[1])

\* Version::cmp, lines 50-61: the match on (self.pre(), other.pre())
pre_cmp(a, b) ==
    IF a = None /\ b = None THEN "Equal"
    ELSE IF a = None THEN "Greater"
    ELSE IF b = None THEN "Less"
    ELSE IF starts_with_rc(a[1]) = starts_with_rc(b[1]) THEN str_cmp(a[1], b[1])
    ELSE IF starts_with_rc(a[1]) THEN "Greater"
    ELSE "Less"

\* a plausible slip: minor is looked at before major
cmp_minor_first(self, other) ==
    IF self.minor # other.minor THEN int_cmp(self.minor, other.minor)
    ELSE IF self.major # other.major THEN int_cmp(self.major, other.major)
    ELSE IF self.teeny # other.teeny THEN int_cmp(self.teeny, other.teeny)
    ELSE pre_cmp(self.pre, other.pre)

\* impl Ord for Version: cmp
cmp(self, other) ==
    IF self.major # other.major THEN int_cmp(self.major, other.major)
    ELSE IF self.minor # other.minor THEN int_cmp(self.minor, other.minor)
    ELSE IF self.teeny # other.teeny THEN int_cmp(self.teeny, other.teeny)
    ELSE pre_cmp(self.pre, other.pre)

----------------------------------------------------------------------------
(* The build: RubyBuilder and its phases *)

Stages == {"autoconf", "configure", "make"}

\* the file whose existence lets a stage be skipped
Marker(cmd) ==
    CASE cmd = "autoconf"  -> "configure_path"
      [] cmd = "configure" -> "Makefile"
      [] cmd = "make"      -> "bin_path"

\* what Command::output can do with a stage's command: fail to spawn, exit
\* non-zero, or exit zero; a run that exits zero may or may not have written
\* the stage's marker file
StageOutcomes ==
    {[status |-> "spawn_fail", wrote |-> FALSE], [status |-> "nonzero", wrote |-> FALSE]}
    \cup [status : {"success"}, wrote : BOOLEAN]

\* what the installed binary can print for RUBY_PROGRAM_VERSION
QueryStdouts == {<<"1", ".", "0", ".", "0">>, <<"1", ".", "2">>, <<>>}

\* what running `ruby -e ...` can do: fail to spawn, exit non-zero, or exit zero
\* with bytes on stdout that are UTF-8 text (Some) or not (None)
QueryOutcomes ==
    {[status |-> "spawn_fail", stdout |-> None], [status |-> "nonzero", stdout |-> None]}
    \cup [status : {"success"}, stdout : {None} \cup {Some(t) : t \in QueryStdouts}]

NoResult == [tag |-> "None", error |-> "", payload |-> "", version |-> None]
Ok(v) == [tag |-> "Ok", error |-> "", payload |-> "", version |-> Some(v)]
Err(e, p) == [tag |-> "Err", error |-> e, payload |-> p, version |-> None]

\* RubyBuilder::new: no force flag is set
NewFlags == [force_autoconf |-> FALSE, force_configure |-> FALSE, force_make |-> FALSE]

\* RubyBuilder::new, lines 62-63: util::nmake finds nothing off Windows
TargetMsvc(h) == h.windows /\ h.nmake

BuildInit ==
    /\ host \in {h \in [windows : BOOLEAN, nmake : BOOLEAN] : h.nmake => h.windows}
    /\ fs \in [{"configure_path", "Makefile", "bin_path"} -> BOOLEAN]
    /\ target_msvc = FALSE
    /\ builder = NewFlags
    /\ pc = "idle"
    /\ run_autoconf = FALSE
    /\ run_configure = FALSE
    /\ run_make = FALSE
    /\ events = <<>>
    /\ result = NoResult
    /\ start_fs = fs
    /\ calls = 0
    /\ prev = [result |-> NoResult, events |-> <<>>]

\* Ruby::src(..).builder(out_dir, target): a fresh RubyBuilder on the same directories
NewBuilder ==
    /\ pc \in {"idle", "ok", "err"}
    /\ calls < MaxCalls
    /\ builder' = NewFlags
    /\ pc' = "builder"
    /\ calls' = calls + 1
    /\ prev' = [result |-> result, events |-> events]
    /\ events' = <<>>
    /\ result' = NoResult
    /\ run_autoconf' = FALSE
    /\ run_configure' = FALSE
    /\ run_make' = FALSE
    /\ start_fs' = fs
    /\ target_msvc' = TargetMsvc(host)
    /\ UNCHANGED <<host, fs>>

\* AutoconfPhase::force
AutoconfForce ==
    /\ pc = "builder"
    /\ ~builder.force_autoconf
    /\ builder' = [builder EXCEPT !.force_autoconf = TRUE]
    /\ UNCHANGED <<host, fs, target_msvc, pc, run_autoconf, run_configure, run_make,
                   events, result, start_fs, calls, prev>>

\* ConfigurePhase::force
ConfigureForce ==
    /\ pc = "builder"
    /\ ~builder.force_configure
    /\ builder' = [builder EXCEPT !.force_configure = TRUE]
    /\ UNCHANGED <<host, fs, target_msvc, pc, run_autoconf, run_configure, run_make,
                   events, result, start_fs, calls, prev>>

\* MakePhase::force
MakeForce ==
    /\ pc = "builder"
    /\ ~builder.force_make
    /\ builder' = [builder EXCEPT !.force_make = TRUE]
    /\ UNCHANGED <<host, fs, target_msvc, pc, run_autoconf, run_configure, run_make,
                   events, result, start_fs, calls, prev>>

\* a plausible slip: the test of the configure script is inverted
AutoconfCondMarkerPresent(self, files) ==
    self.force_autoconf \/ files["configure_path"]

\* the condition of phase!(autoconf, ..), line 153
AutoconfCond(self, files) ==
    self.force_autoconf \/ ~files["configure_path"]

\* a plausible slip: the cascade from autoconf is left out
ConfigureCondNoCascade(ran_autoconf, self, files) ==
    self.force_configure \/ ~files["Makefile"]

\* a plausible slip: the force flag of make reaches back to configure
ConfigureCondAnyForce(ran_autoconf, self, files) ==
    ran_autoconf \/ self.force_configure \/ self.force_make \/ ~files["Makefile"]

\* the condition of phase!(configure, ..), line 160
ConfigureCond(ran_autoconf, self, files) ==
    ran_autoconf \/ self.force_configure \/ ~files["Makefile"]

\* a plausible slip: the test of the installed binary is inverted
MakeCondMarkerPresent(ran_configure, self, files) ==
    ran_configure \/ self.force_make \/ files["bin_path"]

\* a plausible slip: the installed binary is not looked at
MakeCondNoMarker(ran_configure, self, files) ==
    ran_configure \/ self.force_make

\* the condition of phase!(make, ..), line 165
MakeCond(ran_configure, self, files) ==
    ran_configure \/ self.force_make \/ ~files["bin_path"]

\* a plausible slip: the exit status is not looked at
PhaseIgnoreExit(cmd, fail, spawn_fail, o, next) ==
    /\ events' = Append(events, [cmd |-> cmd, status |-> o.status,
                                  marker |-> o.wrote \/ fs[Marker(cmd)]])
    /\ fs' = IF o.wrote THEN [fs EXCEPT ![Marker(cmd)] = TRUE] ELSE fs
    /\ IF o.status = "spawn_fail"
       THEN pc' = "err" /\ result' = Err(spawn_fail, "io::Error")
       ELSE pc' = next /\ result' = result

\* a plausible slip: a command that exits non-zero is run again
PhaseRetry(cmd, fail, spawn_fail, o, next) ==
    /\ events' = Append(events, [cmd |-> cmd, status |-> o.status,
                                  marker |-> o.wrote \/ fs[Marker(cmd)]])
    /\ fs' = IF o.wrote THEN [fs EXCEPT ![Marker(cmd)] = TRUE] ELSE fs
    /\ IF o.status = "spawn_fail"
       THEN pc' = "err" /\ result' = Err(spawn_fail, "io::Error")
       ELSE IF o.status = "nonzero"
       THEN pc' = pc /\ result' = result
       ELSE pc' = next /\ result' = result

\* the phase! macro with its condition true: run the command, return its error
Phase(cmd, fail, spawn_fail, o, next) ==
    /\ events' = Append(events, [cmd |-> cmd, status |-> o.status,
                                  marker |-> o.wrote \/ fs[Marker(cmd)]])
    /\ fs' = IF o.wrote THEN [fs EXCEPT ![Marker(cmd)] = TRUE] ELSE fs
    /\ IF o.status = "spawn_fail"
       THEN pc' = "err" /\ result' = Err(spawn_fail, "io::Error")
       ELSE IF o.status = "nonzero"
       THEN pc' = "err" /\ result' = Err(fail, "Output")
       ELSE pc' = next /\ result' = result

\* the phase! macro with its condition false
SkipPhase(next) ==
    /\ pc' = next
    /\ UNCHANGED <<events, fs, result>>

\* a plausible slip: target_msvc is not looked at
BuildAutoconfAnyTarget ==
    /\ pc = "builder"
    /\ run_autoconf' = AutoconfCond(builder, fs)
    /\ IF AutoconfCond(builder, fs)
       THEN \E o \in StageOutcomes :
                Phase("autoconf", "AutoconfFail", "AutoconfSpawnFail", o, "configure")
       ELSE SkipPhase("configure")
    /\ UNCHANGED <<host, target_msvc, builder, run_configure, run_make, start_fs, calls, prev>>

\* build, lines 150-156
BuildAutoconf ==
    /\ pc = "builder"
    /\ IF target_msvc
       THEN /\ run_autoconf' = FALSE
            /\ SkipPhase("configure")
       ELSE /\ run_autoconf' = AutoconfCond(builder, fs)
            /\ IF AutoconfCond(builder, fs)
               THEN \E o \in StageOutcomes :
                        Phase("autoconf", "AutoconfFail", "AutoconfSpawnFail", o, "configure")
               ELSE SkipPhase("configure")
    /\ UNCHANGED <<host, target_msvc, builder, run_configure, run_make, start_fs, calls, prev>>

\* build, lines 158-161
BuildConfigure ==
    /\ pc = "configure"
    /\ run_configure' = ConfigureCond(run_autoconf, builder, fs)
    /\ IF ConfigureCond(run_autoconf, builder, fs)
       THEN \E o \in StageOutcomes :
                Phase("configure", "ConfigureFail", "ConfigureSpawnFail", o, "make")
       ELSE SkipPhase("make")
    /\ UNCHANGED <<host, target_msvc, builder, run_autoconf, run_make, start_fs, calls, prev>>

\* build, lines 163-166
BuildMake ==
    /\ pc = "make"
    /\ run_make' = MakeCond(run_configure, builder, fs)
    /\ IF MakeCond(run_configure, builder, fs)
       THEN \E o \in StageOutcomes :
                Phase("make", "MakeFail", "MakeSpawnFail", o, "version")
       ELSE SkipPhase("version")
    /\ UNCHANGED <<host, target_msvc, builder, run_autoconf, run_configure, start_fs, calls, prev>>

\* a plausible slip: the exit status of the query is not looked at
VersionFromCmdNoStatus(o) ==
    IF o.status = "spawn_fail" THEN Err("Version", "Exec(ExecFail)")
    ELSE IF o.stdout = None THEN Err("Version", "Exec(Utf8Error)")
    ELSE LET r == from_str(o.stdout[1])
         IN  IF r.ok THEN Ok(r.version) ELSE Err("Version", "Parse")

\* RubyExecError::process followed by str::parse, as Version::from_cmd chains them
VersionFromCmd(o) ==
    IF o.status = "spawn_fail" THEN Err("Version", "Exec(ExecFail)")
    ELSE IF o.status = "nonzero" THEN Err("Version", "Exec(RunFail)")
    ELSE IF o.stdout = None THEN Err("Version", "Exec(Utf8Error)")
    ELSE LET r == from_str(o.stdout[1])
         IN  IF r.ok THEN Ok(r.version) ELSE Err("Version", "Parse")

\* build, lines 168-174: Version::from_bin(&bin_path)?; a binary that does not
\* exist cannot be spawned
BuildVersion ==
    /\ pc = "version"
    /\ \E o \in QueryOutcomes :
        /\ (~fs["bin_path"] => o.status = "spawn_fail")
        /\ events' = Append(events, [cmd |-> "ruby", status |-> o.status,
                                      marker |-> fs["bin_path"]])
        /\ result' = VersionFromCmd(o)
        /\ pc' = IF VersionFromCmd(o).tag = "Ok" THEN "ok" ELSE "err"
    /\ UNCHANGED <<host, fs, target_msvc, builder, run_autoconf, run_configure, run_make,
                   start_fs, calls, prev>>

\* the version scenario before anything is constructed or supplied
VersionIdle ==
    /\ vpc = "start"
    /\ ver = None
    /\ text = <<>>
    /\ parser = ParserDefault
    /\ parsed = ParseErr("none", "none")

\* the ordering scenario before any version is constructed
OrderIdle ==
    /\ opc = "start"
    /\ va = Version(0, 0, 0, None)
    /\ vb = Version(0, 0, 0, None)
    /\ ord = "none"

\* results of link: Ok(()), Err(RubyLinkError) with what the variant carries, or
\* a panic of the process
LinkNoResult == [tag |-> "none", error |-> "none", args |-> <<>>, static_lib |-> FALSE]
LinkOk == [tag |-> "Ok", error |-> "none", args |-> <<>>, static_lib |-> FALSE]
LinkErr(e) == [tag |-> "Err", error |-> e, args |-> <<>>, static_lib |-> FALSE]
LinkErrArgs(e, a) == [tag |-> "Err", error |-> e, args |-> a, static_lib |-> FALSE]
MissingLibs(st) == [tag |-> "Err", error |-> "MissingLibs", args |-> <<>>, static_lib |-> st]
LinkPanic == [tag |-> "panic", error |-> "none", args |-> <<>>, static_lib |-> FALSE]

\* a host that is not Linux; OUT_DIR and the deps directory play no part there
OtherHost == [linux |-> FALSE, out_dir |-> "unset", so_link |-> "absent"]

\* link has not been called
LinkIdle ==
    /\ lpc = "start"
    /\ static_lib = FALSE
    /\ rbconfig = [k \in {"LIBRUBYARG_STATIC", "LIBRUBYARG_SHARED"} |-> <<>>]
    /\ lenv = OtherHost
    /\ target = <<>>
    /\ args = <<>>
    /\ so_libs = <<>>
    /\ aux_libs = <<>>
    /\ dy_libs = {}
    /\ ruby_lib = <<>>
    /\ todo = {}
    /\ args_iter = <<>>
    /\ queries = <<>>
    /\ out = <<>>
    /\ lresult = LinkNoResult

\* the width of the name field of an old-style tar header
NameWidth == 100

\* the zero byte
NUL == "\\0"

\* results of is_dir: a bool, or a panic of the process
IsDirNone == [tag |-> "none", val |-> FALSE]
IsDirRet(b) == [tag |-> "ret", val |-> b]
IsDirPanic == [tag |-> "panic", val |-> FALSE]

\* no entry has been read
ArchiveIdle ==
    /\ apc = "start"
    /\ header = [entry_type |-> "Regular", name |-> [k \in 1..NameWidth |-> NUL]]
    /\ is_dir_ret = IsDirNone
    /\ made = "none"

\* RubySrcDownloader::new
NewDownloaderFields ==
    [ignore_existing_dir |-> FALSE, ignore_cache |-> FALSE, cache |-> FALSE,
     cache_dir |-> FALSE]

\* the directories an archive file can be kept in: "aloxide" in the temporary
\* directory, "aloxide" in the user's cache directory, the caller's cache_dir
ArchiveDirs == {"temp", "cache", "given"}

\* results of download
DlNoResult == [tag |-> "none", error |-> "none"]
DlOk == [tag |-> "Ok", error |-> "none"]
DlErr(e) == [tag |-> "Err", error |-> e]

\* no download has been asked for
DownloadIdle ==
    /\ dpc = "start"
    /\ downloader = NewDownloaderFields
    /\ src_dir = "absent"
    /\ archives = [d \in ArchiveDirs |-> "absent"]
    /\ cache_home = FALSE
    /\ archive_dir = "temp"
    /\ remove_archive = FALSE
    /\ dev = <<>>
    /\ dresult = DlNoResult
    /\ dstart = [src_dir |-> "absent", archives |-> [d \in ArchiveDirs |-> "absent"]]
    /\ dcalls = 0

Init == BuildInit /\ VersionIdle /\ OrderIdle /\ LinkIdle /\ ArchiveIdle /\ DownloadIdle

Next ==
    \/ (NewBuilder /\ UNCHANGED <<versionVars, orderVars, linkVars, archiveVars, downloadVars>>)
    \/ (AutoconfForce /\ UNCHANGED <<versionVars, orderVars, linkVars, archiveVars, downloadVars>>)
    \/ (ConfigureForce /\ UNCHANGED <<versionVars, orderVars, linkVars, archiveVars, downloadVars>>)
    \/ (MakeForce /\ UNCHANGED <<versionVars, orderVars, linkVars, archiveVars, downloadVars>>)
    \/ (BuildAutoconf /\ UNCHANGED <<versionVars, orderVars, linkVars, archiveVars, downloadVars>>)
    \/ (BuildConfigure /\ UNCHANGED <<versionVars, orderVars, linkVars, archiveVars, downloadVars>>)
    \/ (BuildMake /\ UNCHANGED <<versionVars, orderVars, linkVars, archiveVars, downloadVars>>)
    \/ (BuildVersion /\ UNCHANGED <<versionVars, orderVars, linkVars, archiveVars, downloadVars>>)

Spec == Init /\ [][Next]_vars

----------------------------------------------------------------------------
(* The version scenario: a Version is constructed and rendered, or a string *)
(* is supplied by the caller; a parser is configured; the string is parsed. *)

SegVals == (0..MaxSeg) \cup {10, U16Max}

Pres == {None, Some(<<>>), Some(<<"r", "c", "1">>), Some(<<"d", "e", "v">>),
         Some(<<"a", "-", "b">>), Some(<<"a", ".", "b">>), Some(<<"-">>),
         Some(<<"1", ".", "2">>)}

Versions == {Version(a, b, c, p) : a \in SegVals, b \in SegVals, c \in SegVals, p \in Pres}

InputAlphabet == {"0", "1", ".", "-", "+", "x"}

PreSuffix(pre) == IF pre # None THEN <<"-">> \o pre[1] ELSE <<>>

\* the strings of tests::parse_any and tests::parse_all
TestInputs ==
    {<<"1">>, <<"1", "-", "r", "c", "1">>, <<"1", ".", "0", "-", "r", "c", "2">>,
     <<"1", ".", "0", ".", "0">>, <<"1", ".", "0", ".", "0", "-", "d", "e", "v">>,
     <<"1", ".", "0">>, <<"1", ".", "0", ".">>, <<"1", ".", ".", "-", "d", "e", "v">>}

\* strings with more than one '-' and with nothing after it
SuffixInputs == {<<"1", ".", "0", ".", "0", "-", "a", "-", "b">>, <<"1", ".", "0", ".", "0", "-">>, <<"1", "-", "0", ".", "0">>}

\* strings with a segment that a u16 does not hold
OverflowInputs ==
    {<<"6", "5", "5", "3", "6">>,
     <<"9", "9", "9", "9", "9">>,
     <<"+", "6", "5", "5", "3", "6">>,
     <<"6", "5", "5", "3", "6", ".", "0">>,
     <<"0", ".", "6", "5", "5", "3", "6">>,
     <<"6", "5", "5", "3", "7", ".", "0", ".", "0">>,
     <<"1", ".", "6", "5", "5", "3", "6", ".", "0">>,
     <<"1", ".", "2", ".", "6", "5", "5", "3", "7">>,
     <<"1", ".", "0", ".", "6", "5", "5", "3", "6", "-", "r", "c", "1">>,
     <<"6", "5", "5", "3", "6", ".", "x">>,
     <<"x", ".", "6", "5", "5", "3", "6">>}

\* strings a caller can supply: every short string over InputAlphabet, the
\* strings of the tests, and
\* every "M", "M.m" and "M.m.t" with an optional "-pre"
InputStrings ==
    UNION {[1..k -> InputAlphabet] : k \in 0..MaxLen}
    \cup TestInputs
    \cup SuffixInputs
    \cup OverflowInputs
    \cup {ToDigits(a) \o PreSuffix(p) : a \in SegVals, p \in Pres}
    \cup {ToDigits(a) \o <<".">> \o ToDigits(b) \o PreSuffix(p) :
            a \in SegVals, b \in SegVals, p \in Pres}
    \cup {ToDigits(a) \o <<".">> \o ToDigits(b) \o <<".">> \o ToDigits(c) \o PreSuffix(p) :
            a \in SegVals, b \in SegVals, c \in {0, 1, U16Max}, p \in Pres}

\* Version::new / Version::with_pre / From<(u16, u16, u16, S)>
NewVersion ==
    /\ vpc = "start"
    /\ \E v \in Versions : ver' = Some(v)
    /\ vpc' = "version"
    /\ UNCHANGED <<text, parser, parsed>>

\* to_string(), through impl Display for Version
Render ==
    /\ vpc = "version"
    /\ text' = Display(ver[1])
    /\ vpc' = "text"
    /\ UNCHANGED <<ver, parser, parsed>>

\* the caller supplies the string
Input ==
    /\ vpc = "start"
    /\ \E t \in InputStrings : text' = t
    /\ vpc' = "text"
    /\ UNCHANGED <<ver, parser, parsed>>

\* VersionParser::require_minor
RequireMinor ==
    /\ vpc = "text"
    /\ parser' = ParserRequireMinor(parser)
    /\ parser' # parser
    /\ UNCHANGED <<vpc, ver, text, parsed>>

\* VersionParser::require_all
RequireAll ==
    /\ vpc = "text"
    /\ parser' = ParserRequireAll(parser)
    /\ parser' # parser
    /\ UNCHANGED <<vpc, ver, text, parsed>>

\* VersionParser::parse
Parse ==
    /\ vpc = "text"
    /\ parsed' = parse(parser, text)
    /\ vpc' = "parsed"
    /\ UNCHANGED <<ver, text, parser>>

\* no build is made in the version scenario
BuildIdle ==
    /\ host = [windows |-> FALSE, nmake |-> FALSE]
    /\ fs = [f \in {"configure_path", "Makefile", "bin_path"} |-> FALSE]
    /\ target_msvc = FALSE
    /\ builder = NewFlags
    /\ pc = "idle"
    /\ run_autoconf = FALSE
    /\ run_configure = FALSE
    /\ run_make = FALSE
    /\ events = <<>>
    /\ result = NoResult
    /\ start_fs = fs
    /\ calls = 0
    /\ prev = [result |-> NoResult, events |-> <<>>]

InitVersion ==
    VersionIdle /\ BuildIdle /\ OrderIdle /\ LinkIdle /\ ArchiveIdle /\ DownloadIdle

NextVersion ==
    \/ (NewVersion /\ UNCHANGED <<buildVars, orderVars, linkVars, archiveVars, downloadVars>>)
    \/ (Render /\ UNCHANGED <<buildVars, orderVars, linkVars, archiveVars, downloadVars>>)
    \/ (Input /\ UNCHANGED <<buildVars, orderVars, linkVars, archiveVars, downloadVars>>)
    \/ (RequireMinor /\ UNCHANGED <<buildVars, orderVars, linkVars, archiveVars, downloadVars>>)
    \/ (RequireAll /\ UNCHANGED <<buildVars, orderVars, linkVars, archiveVars, downloadVars>>)
    \/ (Parse /\ UNCHANGED <<buildVars, orderVars, linkVars, archiveVars, downloadVars>>)

SpecVersion == InitVersion /\ [][NextVersion]_vars

----------------------------------------------------------------------------
(* Properties of the build *)

Ran(cmd) == \E i \in 1..Len(events) : events[i].cmd = cmd

Count(cmd) == Cardinality({i \in 1..Len(events) : events[i].cmd = cmd})

NoStageRan == \A i \in 1..Len(events) : events[i].cmd \notin Stages

AllMarkersAtStart ==
    start_fs["configure_path"] /\ start_fs["Makefile"] /\ start_fs["bin_path"]

Returned == pc \in {"ok", "err"}

\* C1: on a target that is not MSVC, a stage the call reaches is executed when
\* its marker is missing at that moment, or its force flag is set, or an earlier
\* stage executed in this call; so a call that got past make has run configure
\* and make if it ran autoconf, and make if it ran configure.
C1_Step ==
    ~target_msvc =>
        /\ (pc = "builder" /\ pc' # "builder"
                /\ (builder.force_autoconf \/ ~fs["configure_path"]))
            => Ran("autoconf")'
        /\ (pc = "configure" /\ pc' # "configure"
                /\ (Ran("autoconf") \/ builder.force_configure \/ ~fs["Makefile"]))
            => Ran("configure")'
        /\ (pc = "make" /\ pc' # "make"
                /\ (Ran("autoconf") \/ Ran("configure") \/ builder.force_make
                        \/ ~fs["bin_path"]))
            => Ran("make")'
        /\ (pc = "make" /\ pc' # "make" /\ Ran("autoconf")) => Ran("configure")

C1_Cascade == [][C1_Step]_vars

\* C1 witness: autoconf ran, and configure and make ran after it although their
\* markers were there and their force flags were unset
C1_Witness ==
    /\ pc = "ok" /\ ~target_msvc
    /\ start_fs["Makefile"] /\ start_fs["bin_path"]
    /\ ~builder.force_configure /\ ~builder.force_make
    /\ Ran("autoconf") /\ Ran("configure") /\ Ran("make")

\* C2 as stated: with all three markers present and no force flag, a build call
\* that returns the installed runtime has spawned no process at all.
C2_ZeroCommands ==
    (pc = "ok" /\ AllMarkersAtStart /\ builder = NewFlags) => events = <<>>

\* C2 amended: with all three markers present and no force flag, build executes
\* none of the three stages; the one process it spawns is the version query of
\* the installed binary, and it returns the runtime iff that query succeeds.
C2_OnlyVersionQuery ==
    (AllMarkersAtStart /\ builder = NewFlags) =>
        /\ NoStageRan
        /\ fs = start_fs
        /\ Returned =>
            /\ Len(events) = 1
            /\ events[1].cmd = "ruby"
            /\ (result.tag = "Ok") = (pc = "ok")
            /\ pc = "ok" => events[1].status = "success"
            /\ pc = "err" => result.error = "Version"

C2_Witness ==
    /\ pc = "ok" /\ AllMarkersAtStart /\ builder = NewFlags
    /\ Len(events) = 1 /\ result.tag = "Ok"

\* C3: with the configure script and the Makefile present, the binary missing
\* and no force flag, build executes make once and neither autoconf nor configure.
C3_OnlyMake ==
    (start_fs["configure_path"] /\ start_fs["Makefile"] /\ ~start_fs["bin_path"]
            /\ builder = NewFlags /\ pc \in {"version", "ok", "err"})
        => (~Ran("autoconf") /\ ~Ran("configure") /\ Count("make") = 1
                /\ events[1].cmd = "make")

C3_Witness ==
    /\ start_fs["configure_path"] /\ start_fs["Makefile"] /\ ~start_fs["bin_path"]
    /\ builder = NewFlags /\ pc = "ok"
    /\ Count("make") = 1 /\ Len(events) = 2

StageErr(cmd, status) ==
    CASE cmd = "autoconf"  -> IF status = "spawn_fail" THEN "AutoconfSpawnFail" ELSE "AutoconfFail"
      [] cmd = "configure" -> IF status = "spawn_fail" THEN "ConfigureSpawnFail" ELSE "ConfigureFail"
      [] cmd = "make"      -> IF status = "spawn_fail" THEN "MakeSpawnFail" ELSE "MakeFail"

StageErrNames ==
    {"AutoconfSpawnFail", "AutoconfFail", "ConfigureSpawnFail", "ConfigureFail",
     "MakeSpawnFail", "MakeFail"}

\* C4: a stage that fails is the last thing its build call does: nothing is
\* spawned after it (no later stage, no version query), the call has returned
\* an error and no Ruby, and the error is the failed stage's spawn-failure
\* variant (with the io::Error) or its non-zero-exit variant (with the Output).
C4_FailStops ==
    /\ \A i \in 1..Len(events) :
        (events[i].cmd \in Stages /\ events[i].status # "success") =>
            /\ i = Len(events)
            /\ pc = "err"
            /\ result.tag = "Err" /\ result.version = None
            /\ result.error = StageErr(events[i].cmd, events[i].status)
            /\ result.payload =
                    (IF events[i].status = "spawn_fail" THEN "io::Error" ELSE "Output")
    /\ (result.error \in StageErrNames) =>
            /\ events # <<>>
            /\ events[Len(events)].cmd \in Stages
            /\ events[Len(events)].status # "success"

C4_Witness ==
    /\ pc = "err" /\ Len(events) = 2
    /\ events[1].cmd = "autoconf" /\ events[1].status = "success"
    /\ events[2].cmd = "configure" /\ events[2].status = "nonzero"
    /\ result.error = "ConfigureFail" /\ ~fs["bin_path"] /\ ~builder.force_make

QueryPayloads(status) ==
    CASE status = "spawn_fail" -> {"Exec(ExecFail)"}
      [] status = "nonzero"    -> {"Exec(RunFail)"}
      [] status = "success"    -> {"Exec(Utf8Error)", "Parse"}

\* C5: a Ruby is returned only when every stage that ran succeeded and the
\* version query succeeded; the query is spawned at most once, as the last
\* process of the call, after successful stages only; when it fails the call
\* has returned the Version error of that failure.
C5_VersionQuery ==
    /\ Count("ruby") <= 1
    /\ (result.tag = "Ok") = (pc = "ok")
    /\ \A i \in 1..Len(events) : events[i].cmd = "ruby" =>
        /\ i = Len(events)
        /\ \A j \in 1..(i - 1) : events[j].cmd \in Stages /\ events[j].status = "success"
        /\ Returned
        /\ pc = "err" =>
            /\ result = Err("Version", result.payload)
            /\ result.payload \in QueryPayloads(events[i].status)
        /\ pc = "ok" => events[i].status = "success" /\ result.version # None
    /\ pc = "ok" => Ran("ruby")
    /\ (pc = "err" /\ result.error = "Version") => Ran("ruby")

C5_Witness ==
    /\ pc = "err" /\ result.error = "Version" /\ result.payload = "Parse"
    /\ Len(events) = 4

StageRank(cmd) ==
    CASE cmd = "autoconf" -> 1 [] cmd = "configure" -> 2 [] cmd = "make" -> 3 [] cmd = "ruby" -> 4

\* C6: within one build call the stages that execute do so in the order
\* autoconf, configure, make, each at most once, a failed stage included.
C6_OnceInOrder ==
    /\ \A i, j \in 1..Len(events) :
        i < j => StageRank(events[i].cmd) < StageRank(events[j].cmd)
    /\ \A c \in Stages : Count(c) <= 1

C6_Witness ==
    /\ Len(events) = 3
    /\ events[1].cmd = "autoconf" /\ events[2].cmd = "configure" /\ events[3].cmd = "make"
    /\ events[3].status = "nonzero" /\ pc = "err"

\* C7: on the MSVC target autoconf is never executed, forced or not, and it
\* counts as not executed: configure runs iff it is forced or the Makefile is missing.
C7_MsvcNoAutoconf ==
    target_msvc =>
        /\ ~Ran("autoconf")
        /\ ~run_autoconf
        /\ pc \in {"make", "version", "ok", "err"} =>
            (Ran("configure") = (builder.force_configure \/ ~start_fs["Makefile"]))

C7_Witness ==
    /\ target_msvc /\ pc = "ok"
    /\ builder.force_autoconf /\ ~start_fs["configure_path"]
    /\ ~Ran("configure") /\ Ran("make")

\* every stage of the previous call that succeeded left its marker in place
PrevToolsWroteMarkers ==
    \A i \in 1..Len(prev.events) :
        (prev.events[i].cmd \in Stages /\ prev.events[i].status = "success")
            => prev.events[i].marker

\* C8: after a build call that returned a Ruby, its successful stages having
\* left their markers, the next call with no force flag executes no stage.
C8_SecondBuildCheap ==
    (calls >= 2 /\ prev.result.tag = "Ok" /\ PrevToolsWroteMarkers /\ builder = NewFlags)
        => NoStageRan

C8_Witness ==
    /\ calls >= 2 /\ prev.result.tag = "Ok" /\ PrevToolsWroteMarkers
    /\ Len(prev.events) = 4
    /\ builder = NewFlags /\ pc = "ok" /\ Len(events) = 1

----------------------------------------------------------------------------
(* Properties of the version model *)

RequireAllParser == [require_minor |-> TRUE, require_teeny |-> TRUE]

\* C9: the require-all parser maps the rendered string of every version back to
\* that version.
C9_RoundTrip ==
    (vpc = "parsed" /\ ver # None /\ parser = RequireAllParser)
        => parsed = ParseOk(ver[1])

C9_Witness ==
    /\ vpc = "parsed" /\ ver # None /\ parser = RequireAllParser
    /\ ver[1].pre = Some(<<"a", "-", "b">>) /\ ver[1].major = U16Max /\ ver[1].teeny = 10
    /\ parsed.ok

\* C10: the minimal parser maps "M" to {M,0,0}, and the minimal and the
\* require-minor parser map "M.m" to {M,m,0}, pre being None or the "-pre" suffix.
C10_AbsentSegmentsAreZero ==
    vpc = "parsed" =>
        \A a \in SegVals, b \in SegVals, p \in Pres :
            /\ (text = ToDigits(a) \o PreSuffix(p) /\ parser = ParserDefault)
                => parsed = ParseOk(Version(a, 0, 0, p))
            /\ (text = ToDigits(a) \o <<".">> \o ToDigits(b) \o PreSuffix(p)
                    /\ ~parser.require_teeny)
                => parsed = ParseOk(Version(a, b, 0, p))

\* the part of a string before its first '-'
NumPart(t) ==
    IF \E i \in 1..Len(t) : t[i] = "-"
    THEN SubSeq(t, 1, (CHOOSE i \in 1..Len(t) : t[i] = "-" /\ \A j \in 1..(i - 1) : t[j] # "-") - 1)
    ELSE t

\* the places of the dots of a string, in rising order
DotPlaces(n) ==
    LET D == {i \in 1..Len(n) : n[i] = "."}
        Nth[k \in 0..Cardinality(D)] ==
            IF k = 0 THEN 0 ELSE CHOOSE i \in D : i > Nth[k - 1] /\ \A j \in D : j > Nth[k - 1] => i <= j
    IN  [k \in 1..Cardinality(D) |-> Nth[k]]

Dots(t) == Len(DotPlaces(NumPart(t)))

\* the first and the second segment, and what follows the second dot
Seg1(t) ==
    LET n == NumPart(t) IN IF Dots(t) = 0 THEN n ELSE SubSeq(n, 1, DotPlaces(n)[1] - 1)
Seg2(t) ==
    LET n == NumPart(t)
        d == DotPlaces(n)
    IN  IF Len(d) = 1 THEN SubSeq(n, d[1] + 1, Len(n)) ELSE SubSeq(n, d[1] + 1, d[2] - 1)
Seg3(t) ==
    LET n == NumPart(t) IN SubSeq(n, DotPlaces(n)[2] + 1, Len(n))

DigitSet == {"0", "1", "2", "3", "4", "5", "6", "7", "8", "9"}

\* not a number: empty, a lone sign, or holding a character that is neither a
\* digit nor a leading '+'
NonNumeric(g) ==
    \/ g = <<>>
    \/ g = <<"+">>
    \/ \E i \in 1..Len(g) : g[i] \notin DigitSet /\ ~(i = 1 /\ g[1] = "+")

\* the value of a number in decimal
DecValue(g) ==
    LET d == IF g[1] = "+" THEN Tail(g) ELSE g
        Pow[k \in 0..Len(d)] == IF k = 0 THEN 1 ELSE 10 * Pow[k - 1]
        Sum[k \in 0..Len(d)] ==
            IF k = 0 THEN 0
            ELSE Sum[k - 1] + Pow[Len(d) - k] * ((CHOOSE v \in 0..9 : ToDigits(v) = <<d[k]>>))
    IN  Sum[Len(d)]

\* a number that a u16 holds
Fits(g) == ~NonNumeric(g) /\ DecValue(g) <= U16Max

MissingErrs == {"MinorMissing", "TeenyMissing"}

\* C14: require-minor and require-all answer MinorMissing when the numeric part
\* has no '.'; require-all answers TeenyMissing for "M.m" with exactly one '.';
\* the minimal parser answers neither, and require-minor never TeenyMissing.
C14_MissingSegment ==
    vpc = "parsed" =>
        /\ (parser.require_minor /\ Dots(text) = 0)
            => parsed = ParseErr("MinorMissing", "none")
        /\ (parser.require_teeny /\ Dots(text) = 1 /\ Fits(Seg1(text)))
            => parsed = ParseErr("TeenyMissing", "none")
        /\ (parser = ParserDefault /\ ~parsed.ok) => parsed.err \notin MissingErrs
        /\ (~parser.require_teeny /\ ~parsed.ok) => parsed.err # "TeenyMissing"

C14_Witness ==
    /\ vpc = "parsed" /\ parser = RequireAllParser
    /\ text = <<"1", ".", "0">> /\ parsed = ParseErr("TeenyMissing", "none")

\* every segment the parser's grammar requires is there
RequiredSegmentsPresent ==
    /\ parser.require_minor => Dots(text) >= 1
    /\ parser.require_teeny => Dots(text) >= 2

AfterFirstDash(t) ==
    IF \E i \in 1..Len(t) : t[i] = "-"
    THEN Some(SubSeq(t, Len(NumPart(t)) + 2, Len(t)))
    ELSE None

\* the result with its pre tag left out
Numbers(r) ==
    IF r.ok THEN <<"ok", r.version.major, r.version.minor, r.version.teeny>>
    ELSE <<"err", r.err, r.int>>

\* C29: the input is split at its first '-': what follows it is pre, verbatim,
\* and the segments are parsed from what precedes it alone, so the outcome but
\* for pre is that of parsing the part before the first '-' by itself;
\* "1.0.0-a-b" has pre "a-b" and "1.0.0-" has pre "".
C29_PreSplitAtFirstDash ==
    vpc = "parsed" =>
        /\ parsed.ok => parsed.version.pre = AfterFirstDash(text)
        /\ Numbers(parsed) = Numbers(parse(parser, NumPart(text)))
        /\ text = <<"1", ".", "0", ".", "0", "-", "a", "-", "b">> => (parsed.ok /\ parsed.version.pre = Some(<<"a", "-", "b">>))
        /\ text = <<"1", ".", "0", ".", "0", "-">> => (parsed.ok /\ parsed.version.pre = Some(<<>>))

C29_Witness ==
    /\ vpc = "parsed"
    /\ text = <<"1", ".", "0", ".", "0", "-", "a", "-", "b">>
    /\ parsed = ParseOk(Version(1, 0, 0, Some(<<"a", "-", "b">>)))

----------------------------------------------------------------------------
(* The ordering scenario: two versions are constructed and compared *)

OrdPres == {None, Some(<<>>), Some(<<"r">>), Some(<<"r", "c">>), Some(<<"r", "c", "1">>),
            Some(<<"r", "c", "2">>), Some(<<"d", "e", "v">>), Some(<<"s">>),
            Some(<<"r", "d">>), Some(<<"p", "r", "e", "v", "i", "e", "w", "1">>)}

OrdSegs == (0..MaxOrdSeg) \cup {10}

OrdVersions ==
    {Version(a, b, c, p) : a \in OrdSegs, b \in OrdSegs, c \in OrdSegs, p \in OrdPres}

\* Version::new / Version::with_pre, twice
NewPair ==
    /\ opc = "start"
    /\ \E a \in OrdVersions, b \in OrdVersions : va' = a /\ vb' = b
    /\ opc' = "pair"
    /\ UNCHANGED ord

\* va.cmp(&vb)
Compare ==
    /\ opc = "pair"
    /\ ord' = cmp(va, vb)
    /\ opc' = "compared"
    /\ UNCHANGED <<va, vb>>

InitOrder ==
    OrderIdle /\ VersionIdle /\ BuildIdle /\ LinkIdle /\ ArchiveIdle /\ DownloadIdle

NextOrder ==
    \/ (NewPair /\ UNCHANGED <<buildVars, versionVars, linkVars, archiveVars, downloadVars>>)
    \/ (Compare /\ UNCHANGED <<buildVars, versionVars, linkVars, archiveVars, downloadVars>>)

SpecOrder == InitOrder /\ [][NextOrder]_vars

----------------------------------------------------------------------------
(* Properties of the ordering *)

SameTriple(a, b) == a.major = b.major /\ a.minor = b.minor /\ a.teeny = b.teeny

\* C11: with equal major, minor and teeny, a version without a pre-release tag
\* compares greater than one with any tag, and that one less than it.
C11_ReleaseAbovePre ==
    (opc = "compared" /\ SameTriple(va, vb)) =>
        /\ (va.pre = None /\ vb.pre # None) => ord = "Greater"
        /\ (va.pre # None /\ vb.pre = None) => ord = "Less"

C11_Witness ==
    /\ opc = "compared" /\ SameTriple(va, vb)
    /\ va.pre = None /\ vb.pre = Some(<<"r", "c", "1">>) /\ ord = "Greater"

HasRc(p) == Len(p[1]) >= 2 /\ SubSeq(p[1], 1, 2) = <<"r", "c">>

\* the lexicographic order of two strings by their bytes: at the first place
\* where they differ the byte of s is the smaller, or s is a proper prefix of t
LexLess(s, t) ==
    \E k \in 0..Len(s) :
        /\ k <= Len(t)
        /\ \A i \in 1..k : s[i] = t[i]
        /\ \/ (k = Len(s) /\ k < Len(t))
           \/ (k < Len(s) /\ k < Len(t) /\ Byte(s[k + 1]) < Byte(t[k + 1]))

\* C12: with equal major, minor and teeny and two tags, a tag that begins with
\* "rc" compares greater than one that does not, and two tags of one class
\* compare as strings.
C12_RcAboveOtherPre ==
    (opc = "compared" /\ SameTriple(va, vb) /\ va.pre # None /\ vb.pre # None) =>
        /\ (HasRc(va.pre) /\ ~HasRc(vb.pre)) => ord = "Greater"
        /\ (~HasRc(va.pre) /\ HasRc(vb.pre)) => ord = "Less"
        /\ (HasRc(va.pre) = HasRc(vb.pre)) =>
            /\ (ord = "Less") = LexLess(va.pre[1], vb.pre[1])
            /\ (ord = "Greater") = LexLess(vb.pre[1], va.pre[1])
            /\ (ord = "Equal") = (va.pre = vb.pre)

C12_Witness ==
    /\ opc = "compared" /\ SameTriple(va, vb)
    /\ va.pre = Some(<<"r", "c", "1">>) /\ vb.pre = Some(<<"s">>) /\ ord = "Greater"

TripleLess(a, b) ==
    \/ a.major < b.major
    \/ (a.major = b.major /\ a.minor < b.minor)
    \/ (a.major = b.major /\ a.minor = b.minor /\ a.teeny < b.teeny)

\* C13: when the (major, minor, teeny) triples differ, the comparison is the
\* numeric lexicographic order of the triples, whatever the two tags are.
C13_TripleDecides ==
    (opc = "compared" /\ ~SameTriple(va, vb)) =>
        /\ TripleLess(va, vb) => ord = "Less"
        /\ TripleLess(vb, va) => ord = "Greater"
        /\ ord # "Equal"

C13_Witness ==
    /\ opc = "compared"
    /\ va.major = 0 /\ va.minor = 10 /\ va.pre = None
    /\ vb.major = 1 /\ vb.minor = 0 /\ vb.pre = Some(<<"d", "e", "v">>)
    /\ ord = "Less"


----------------------------------------------------------------------------
(* Strings of the link scenario *)

\* the needles of target.contains
MSVC == <<"m", "s", "v", "c">>
MSWIN == <<"m", "s", "w", "i", "n">>
----------------------------------------------------------------------------
(* Linking: link::link turns ruby's configuration into directives for cargo *)

\* ASCII whitespace, as str::trim and str::split_ascii_whitespace see it
Whitespace == {" ", "\t", "\n"}

\* a plausible slip: the string is not trimmed before the test
is_empty_untrimmed(s) == s = <<>>

\* str::trim().is_empty()
trim_is_empty(s) == \A i \in 1..Len(s) : s[i] \in Whitespace

\* str::split_ascii_whitespace, collected: the maximal runs of other characters
RECURSIVE split_ascii_whitespace(_)
split_ascii_whitespace(s) ==
    IF s = <<>> THEN <<>>
    ELSE IF s[1] \in Whitespace THEN split_ascii_whitespace(Tail(s))
    ELSE LET stops == {i \in 1..Len(s) : s[i] \in Whitespace}
             n == IF stops = {} THEN Len(s)
                  ELSE (CHOOSE i \in stops : \A j \in stops : i <= j) - 1
         IN  <<SubSeq(s, 1, n)>> \o split_ascii_whitespace(SubSeq(s, n + 1, Len(s)))

\* str::contains
contains(s, pat) ==
    \E i \in 1..(Len(s) - Len(pat) + 1) : SubSeq(s, i, i + Len(pat) - 1) = pat

\* link::lib_name: &lib_flag[2..], which panics (None here) on a shorter flag
lib_name(lib_flag) ==
    IF Len(lib_flag) < 2 THEN None ELSE Some(SubSeq(lib_flag, 3, Len(lib_flag)))

\* link::lib_name_msvc: &lib_flag[..len - 4], which panics (None here) when the
\* subtraction underflows
lib_name_msvc(lib_flag) ==
    IF Len(lib_flag) < 4 THEN None ELSE Some(SubSeq(lib_flag, 1, Len(lib_flag) - 4))

\* the choice of lib_name by target_msvc
lib_name_for(msvc, lib_flag) ==
    IF msvc THEN lib_name_msvc(lib_flag) ELSE lib_name(lib_flag)

\* a plausible slip: only "msvc" is looked for
TargetIsMsvcOnly(t) == contains(t, MSVC)

\* target.contains("msvc") || target.contains("mswin")
TargetIsMsvc(t) == contains(t, MSVC) \/ contains(t, MSWIN)

\* arg.split_at(2), for an arg of at least two characters
str_split_at_2(arg) == <<SubSeq(arg, 1, 2), SubSeq(arg, 3, Len(arg))>>

\* a plausible slip: a search path is printed as a library
SearchPathAsLib(kind, path, by) == [dir |-> "lib", kind |-> "dylib", name |-> path, by |-> by]

\* the directives link prints; by tells which statement of link printed it
SearchPath(kind, path, by) == [dir |-> "search", kind |-> kind, name |-> path, by |-> by]
LinkLib(kind, lib, by) == [dir |-> "lib", kind |-> kind, name |-> lib, by |-> by]


\* what ruby answers for RUBY_SO_NAME, and what Ruby::lib_name appends to it
RUBY_SO_NAME == <<"r", "u", "b", "y">>
STATIC_SUFFIX == <<"-", "s", "t", "a", "t", "i", "c">>

\* Ruby::lib_name, given the answer for RUBY_SO_NAME
RubyLibName(name, st) == IF st THEN name \o STATIC_SUFFIX ELSE name

\* ruby.lib_dir()
LibDir == <<"/", "o", "p", "t", "/", "r", "u", "b", "y", "/", "l", "i", "b">>

\* the name of the variable os_helper reads
OUT_DIR == <<"O", "U", "T", "_", "D", "I", "R">>

\* the text "nil" that ruby prints for a missing value
NIL == <<"n", "i", "l">>

FRAMEWORK == <<"-", "f", "r", "a", "m", "e", "w", "o", "r", "k">>

\* targets ruby can report
Targets == {<<"x", "8", "6", "_", "6", "4", "-", "l", "i", "n", "u", "x">>, <<"x", "6", "4", "-", "m", "s", "w", "i", "n", "6", "4">>, <<"m", "s", "v", "c">>}

\* tokens of a link-argument string
ArgTokens ==
    {<<"-", "l", "r", "u", "b", "y">>, <<"-", "l", "r", "u", "b", "y", "-", "s", "t", "a", "t", "i", "c">>, <<"-", "l", "m">>, <<"-", "L", "/", "u", "s", "r", "/", "l", "i", "b">>, <<"-", "F", "/", "f", "w">>, <<"-", "W", "l", ",", "-", "E">>, FRAMEWORK,
     <<"C", "o", "r", "e", "F", "o", "u", "n", "d", "a", "t", "i", "o", "n">>, <<"x">>}

\* tokens of SOLIBS, MAINLIBS and LIBS
LibTokens == {<<"-", "l", "m">>, <<"-", "l", "r", "u", "b", "y">>, <<"-", "L", "/", "u", "s", "r", "/", "l", "i", "b">>, <<"m", ".", "l", "i", "b">>, <<"x">>}

\* the tokens joined by single spaces
RECURSIVE Join(_)
Join(ts) ==
    IF ts = <<>> THEN <<>>
    ELSE IF Len(ts) = 1 THEN ts[1]
    ELSE ts[1] \o <<" ">> \o Join(Tail(ts))

SeqsUpTo(S, n) == UNION {[1..k -> S] : k \in 0..n}

\* the primary link-argument string of the example: a library covered by the
\* auxiliary libs, a search path and a framework
ExamplePrimary ==
    Join(<<<<"-", "l", "r", "u", "b", "y">>, <<"-", "l", "m">>, <<"-", "L", "/", "u", "s", "r", "/", "l", "i", "b">>, FRAMEWORK, <<"C", "o", "r", "e", "F", "o", "u", "n", "d", "a", "t", "i", "o", "n">>>>)

\* values of LIBRUBYARG_STATIC and LIBRUBYARG_SHARED
PrimaryStrings ==
    {Join(ts) : ts \in SeqsUpTo(ArgTokens, MaxArgs)}
    \cup {<<" ">>, <<" ", "\n">>, ExamplePrimary}

\* values of SOLIBS
LibStrings ==
    {Join(ts) : ts \in SeqsUpTo(LibTokens, MaxLibs)}
    \cup {Join(<<<<"-", "l", "m">>, <<"-", "l", "m">>>>)}

\* values of MAINLIBS and LIBS
AuxStrings == LibStrings \cup {NIL}

\* hosts link can run on
Hosts ==
    {OtherHost}
    \cup {[linux |-> TRUE, out_dir |-> "unset", so_link |-> "absent"],
          [linux |-> TRUE, out_dir |-> "shallow", so_link |-> "absent"],
          [linux |-> TRUE, out_dir |-> "deep", so_link |-> "absent"],
          [linux |-> TRUE, out_dir |-> "deep", so_link |-> "present"]}


\* the elements of a sequence
Range(q) == {q[k] : k \in 1..Len(q)}

\* a plausible slip: SOLIBS is left out of dy_libs
DyLibNamesAuxOnly(msvc, aux, so) ==
    {lib_name_for(msvc, t) : t \in Range(split_ascii_whitespace(aux))}

\* what lines 109-111 put into dy_libs: lib_name of every token of aux_libs and
\* of so_libs, None where lib_name panics
DyLibNames(msvc, aux, so) ==
    {lib_name_for(msvc, t) :
        t \in Range(split_ascii_whitespace(aux)) \cup Range(split_ascii_whitespace(so))}

\* a plausible slip: only dy_libs is consulted
seen_lib_only_dy(lib, rl, dl) == lib \in dl

\* the closure seen_lib
seen_lib(lib, rl, dl) == lib = rl \/ lib \in dl

\* a plausible slip: -framework as the last token is passed over
link_arg_name_optional(arg, rest, full, rl, dl) ==
    LET go(e, r) == [emit |-> e, rest |-> r, err |-> LinkNoResult]
        fail(x) == [emit |-> <<>>, rest |-> rest, err |-> x]
    IN  IF Len(arg) < 2 THEN fail(LinkErrArgs("UnknownFlags", full))
        ELSE LET opt == str_split_at_2(arg)[1]
                 val == str_split_at_2(arg)[2]
             IN  CASE opt = <<"-", "l">> ->
                        IF ~seen_lib(val, rl, dl)
                        THEN go(<<LinkLib("dylib", val, "args")>>, rest)
                        ELSE go(<<>>, rest)
                   [] opt = <<"-", "L">> -> go(<<SearchPath("native", val, "args")>>, rest)
                   [] opt = <<"-", "F">> -> go(<<SearchPath("framework", val, "args")>>, rest)
                   [] opt = <<"-", "W">> -> go(<<>>, rest)
                   [] OTHER ->
                        IF arg = FRAMEWORK
                        THEN IF rest = <<>> THEN go(<<>>, rest)
                             ELSE go(<<LinkLib("framework", rest[1], "args")>>, Tail(rest))
                        ELSE fail(LinkErrArgs("UnknownFlags", full))

\* a plausible slip: a token of fewer than two characters is passed over
link_arg_short_skipped(arg, rest, full, rl, dl) ==
    LET go(e, r) == [emit |-> e, rest |-> r, err |-> LinkNoResult]
        fail(x) == [emit |-> <<>>, rest |-> rest, err |-> x]
    IN  IF Len(arg) < 2 THEN go(<<>>, rest)
        ELSE LET opt == str_split_at_2(arg)[1]
                 val == str_split_at_2(arg)[2]
             IN  CASE opt = <<"-", "l">> ->
                        IF ~seen_lib(val, rl, dl)
                        THEN go(<<LinkLib("dylib", val, "args")>>, rest)
                        ELSE go(<<>>, rest)
                   [] opt = <<"-", "L">> -> go(<<SearchPath("native", val, "args")>>, rest)
                   [] opt = <<"-", "F">> -> go(<<SearchPath("framework", val, "args")>>, rest)
                   [] opt = <<"-", "W">> -> go(<<>>, rest)
                   [] OTHER ->
                        IF arg = FRAMEWORK
                        THEN IF rest = <<>> THEN fail(LinkErrArgs("MissingFramework", full))
                             ELSE go(<<LinkLib("framework", rest[1], "args")>>, Tail(rest))
                        ELSE fail(LinkErrArgs("UnknownFlags", full))

\* a plausible slip: -framework does not take the token after it
link_arg_no_consume(arg, rest, full, rl, dl) ==
    LET go(e, r) == [emit |-> e, rest |-> r, err |-> LinkNoResult]
        fail(x) == [emit |-> <<>>, rest |-> rest, err |-> x]
    IN  IF Len(arg) < 2 THEN fail(LinkErrArgs("UnknownFlags", full))
        ELSE LET opt == str_split_at_2(arg)[1]
                 val == str_split_at_2(arg)[2]
             IN  CASE opt = <<"-", "l">> ->
                        IF ~seen_lib(val, rl, dl)
                        THEN go(<<LinkLib("dylib", val, "args")>>, rest)
                        ELSE go(<<>>, rest)
                   [] opt = <<"-", "L">> -> go(<<SearchPath("native", val, "args")>>, rest)
                   [] opt = <<"-", "F">> -> go(<<SearchPath("framework", val, "args")>>, rest)
                   [] opt = <<"-", "W">> -> go(<<>>, rest)
                   [] OTHER ->
                        IF arg = FRAMEWORK
                        THEN IF rest = <<>> THEN fail(LinkErrArgs("MissingFramework", full))
                             ELSE go(<<LinkLib("framework", rest[1], "args")>>, rest)
                        ELSE fail(LinkErrArgs("UnknownFlags", full))

\* one turn of the loop over args_iter (lines 136-164): arg is the token that
\* next() gave, rest what args_iter still holds, full the whole of args
link_arg(arg, rest, full, rl, dl) ==
    LET go(e, r) == [emit |-> e, rest |-> r, err |-> LinkNoResult]
        fail(x) == [emit |-> <<>>, rest |-> rest, err |-> x]
    IN  IF Len(arg) < 2 THEN fail(LinkErrArgs("UnknownFlags", full))
        ELSE LET opt == str_split_at_2(arg)[1]
                 val == str_split_at_2(arg)[2]
             IN  CASE opt = <<"-", "l">> ->
                        IF ~seen_lib(val, rl, dl)
                        THEN go(<<LinkLib("dylib", val, "args")>>, rest)
                        ELSE go(<<>>, rest)
                   [] opt = <<"-", "L">> -> go(<<SearchPath("native", val, "args")>>, rest)
                   [] opt = <<"-", "F">> -> go(<<SearchPath("framework", val, "args")>>, rest)
                   [] opt = <<"-", "W">> -> go(<<>>, rest)
                   [] OTHER ->
                        IF arg = FRAMEWORK
                        THEN IF rest = <<>> THEN fail(LinkErrArgs("MissingFramework", full))
                             ELSE go(<<LinkLib("framework", rest[1], "args")>>, Tail(rest))
                        ELSE fail(LinkErrArgs("UnknownFlags", full))

\* a plausible slip: the shared key is asked whatever static_lib is
ArgsKeyShared(st) == "LIBRUBYARG_SHARED"

\* the key of the primary link-argument string (lines 87-91)
ArgsKey(st) == IF st THEN "LIBRUBYARG_STATIC" ELSE "LIBRUBYARG_SHARED"

\* the value under the key that link has no reason to read
UnusedValue == <<"-", "l", "u", "n", "u", "s", "e", "d">>

\* a configuration whose value under the key for st is a
RbConfig(st, a) ==
    [k \in {"LIBRUBYARG_STATIC", "LIBRUBYARG_SHARED"} |->
        IF k = ArgsKey(st) THEN a ELSE UnusedValue]

\* the key Ruby::aux_libs asks for
AuxKey(st) == IF st THEN "MAINLIBS" ELSE "LIBS"

\* link returns r
LinkReturn(r) ==
    /\ lresult' = r
    /\ lpc' = "done"

\* get_config fails: the ? operator returns Exec
ExecFails(key) ==
    /\ queries' = Append(queries, key)
    /\ LinkReturn(LinkErr("Exec"))


\* the caller calls ruby.link(static_lib) on some host, with a ruby whose
\* configuration is some RbConfig
LinkCall ==
    /\ lpc = "start"
    /\ \E st \in BOOLEAN, h \in Hosts, a \in PrimaryStrings :
          /\ static_lib' = st
          /\ lenv' = h
          /\ rbconfig' = RbConfig(st, a)
    /\ lpc' = "os_helper"
    /\ UNCHANGED <<target, args, so_libs, aux_libs, dy_libs, ruby_lib, todo, args_iter,
                   queries, out, lresult>>

\* os_helper(ruby, static_lib)?, and after it the search path of line 81
OsHelper ==
    /\ lpc = "os_helper"
    /\ LET proceed ==
            /\ out' = Append(out, SearchPath("native", LibDir, "lib_dir"))
            /\ lpc' = "target"
            /\ UNCHANGED lresult
       IN  IF ~lenv.linux \/ static_lib THEN proceed /\ UNCHANGED lenv
           ELSE IF lenv.out_dir = "unset"
           THEN LinkReturn(LinkErrArgs("MissingEnvVar", OUT_DIR)) /\ UNCHANGED <<lenv, out>>
           ELSE IF lenv.out_dir = "shallow"
           THEN LinkReturn(LinkErr("Io")) /\ UNCHANGED <<lenv, out>>
           ELSE IF lenv.so_link = "present" THEN proceed /\ UNCHANGED lenv
           ELSE \/ LinkReturn(LinkErr("Io")) /\ UNCHANGED <<lenv, out>>
                \/ proceed /\ lenv' = [lenv EXCEPT !.so_link = "present"]
    /\ UNCHANGED <<static_lib, rbconfig, target, args, so_libs, aux_libs, dy_libs, ruby_lib, todo,
                   args_iter, queries>>

\* ruby.get_config("target")?
QueryTarget ==
    /\ lpc = "target"
    /\ \/ ExecFails("target") /\ UNCHANGED target
       \/ /\ \E t \in Targets : target' = t
          /\ queries' = Append(queries, "target")
          /\ lpc' = "args"
          /\ UNCHANGED lresult
    /\ UNCHANGED <<static_lib, rbconfig, lenv, args, so_libs, aux_libs, dy_libs, ruby_lib, todo,
                   args_iter, out>>

\* ruby.get_config(key)? and the test of lines 94-96
QueryArgs ==
    /\ lpc = "args"
    /\ \/ ExecFails(ArgsKey(static_lib)) /\ UNCHANGED args
       \/ /\ args' = rbconfig[ArgsKey(static_lib)]
          /\ queries' = Append(queries, ArgsKey(static_lib))
          /\ IF trim_is_empty(args')
             THEN LinkReturn(MissingLibs(static_lib))
             ELSE lpc' = "so_libs" /\ UNCHANGED lresult
    /\ UNCHANGED <<static_lib, rbconfig, lenv, target, so_libs, aux_libs, dy_libs, ruby_lib, todo,
                   args_iter, out>>

\* ruby.so_libs()?
QuerySoLibs ==
    /\ lpc = "so_libs"
    /\ \/ ExecFails("SOLIBS") /\ UNCHANGED so_libs
       \/ /\ \E v \in LibStrings : so_libs' = v
          /\ queries' = Append(queries, "SOLIBS")
          /\ lpc' = "aux_libs"
          /\ UNCHANGED lresult
    /\ UNCHANGED <<static_lib, rbconfig, lenv, target, args, aux_libs, dy_libs, ruby_lib, todo,
                   args_iter, out>>

\* ruby.aux_libs(static_lib)?, the "nil" test, and the filling of dy_libs
QueryAuxLibs ==
    /\ lpc = "aux_libs"
    /\ \/ ExecFails(AuxKey(static_lib)) /\ UNCHANGED <<aux_libs, dy_libs>>
       \/ /\ \E v \in AuxStrings : aux_libs' = IF v # NIL THEN v ELSE <<>>
          /\ queries' = Append(queries, AuxKey(static_lib))
          /\ LET names == DyLibNames(TargetIsMsvc(target), aux_libs', so_libs)
             IN  IF None \in names
                 THEN LinkReturn(LinkPanic) /\ UNCHANGED dy_libs
                 ELSE /\ dy_libs' = {n[1] : n \in names}
                      /\ lpc' = "lib_name"
                      /\ UNCHANGED lresult
    /\ UNCHANGED <<static_lib, rbconfig, lenv, target, args, so_libs, ruby_lib, todo, args_iter, out>>

\* ruby.lib_name(static_lib)? and link_static or link_dynamic of it
QueryLibName ==
    /\ lpc = "lib_name"
    /\ \/ ExecFails("RUBY_SO_NAME") /\ UNCHANGED <<ruby_lib, out, todo>>
       \/ /\ ruby_lib' = RubyLibName(RUBY_SO_NAME, static_lib)
          /\ queries' = Append(queries, "RUBY_SO_NAME")
          /\ out' = Append(out, LinkLib(IF static_lib THEN "static" ELSE "dylib",
                                        ruby_lib', "ruby_lib"))
          /\ todo' = dy_libs
          /\ lpc' = "dy_libs"
          /\ UNCHANGED lresult
    /\ UNCHANGED <<static_lib, rbconfig, lenv, target, args, so_libs, aux_libs, dy_libs, args_iter>>

\* one turn of the loop over dy_libs; a HashSet yields its members in any order
LinkDyLib ==
    /\ lpc = "dy_libs"
    /\ todo # {}
    /\ \E lib \in todo :
          /\ out' = Append(out, LinkLib("dylib", lib, "dy_libs"))
          /\ todo' = todo \ {lib}
    /\ UNCHANGED <<lpc, static_lib, rbconfig, lenv, target, args, so_libs, aux_libs, dy_libs,
                   ruby_lib, args_iter, queries, lresult>>

\* the loop over dy_libs is over: return on MSVC, else start on the tokens of args
DyLibsDone ==
    /\ lpc = "dy_libs"
    /\ todo = {}
    /\ IF TargetIsMsvc(target)
       THEN LinkReturn(LinkOk) /\ UNCHANGED args_iter
       ELSE /\ args_iter' = split_ascii_whitespace(args)
            /\ lpc' = "args_iter"
            /\ UNCHANGED lresult
    /\ UNCHANGED <<static_lib, rbconfig, lenv, target, args, so_libs, aux_libs, dy_libs, ruby_lib,
                   todo, queries, out>>

\* one turn of the loop over args_iter
LinkArg ==
    /\ lpc = "args_iter"
    /\ args_iter # <<>>
    /\ LET r == link_arg(Head(args_iter), Tail(args_iter), args, ruby_lib, dy_libs)
       IN  /\ out' = out \o r.emit
           /\ args_iter' = r.rest
           /\ IF r.err # LinkNoResult THEN LinkReturn(r.err)
              ELSE UNCHANGED <<lpc, lresult>>
    /\ UNCHANGED <<static_lib, rbconfig, lenv, target, args, so_libs, aux_libs, dy_libs, ruby_lib,
                   todo, queries>>

\* args_iter is exhausted: Ok(())
ArgsDone ==
    /\ lpc = "args_iter"
    /\ args_iter = <<>>
    /\ LinkReturn(LinkOk)
    /\ UNCHANGED <<static_lib, rbconfig, lenv, target, args, so_libs, aux_libs, dy_libs, ruby_lib,
                   todo, args_iter, queries, out>>

InitLink ==
    LinkIdle /\ BuildIdle /\ VersionIdle /\ OrderIdle /\ ArchiveIdle /\ DownloadIdle

NextLink ==
    \/ (LinkCall /\ UNCHANGED <<buildVars, versionVars, orderVars, archiveVars, downloadVars>>)
    \/ (OsHelper /\ UNCHANGED <<buildVars, versionVars, orderVars, archiveVars, downloadVars>>)
    \/ (QueryTarget /\ UNCHANGED <<buildVars, versionVars, orderVars, archiveVars, downloadVars>>)
    \/ (QueryArgs /\ UNCHANGED <<buildVars, versionVars, orderVars, archiveVars, downloadVars>>)
    \/ (QuerySoLibs /\ UNCHANGED <<buildVars, versionVars, orderVars, archiveVars, downloadVars>>)
    \/ (QueryAuxLibs /\ UNCHANGED <<buildVars, versionVars, orderVars, archiveVars, downloadVars>>)
    \/ (QueryLibName /\ UNCHANGED <<buildVars, versionVars, orderVars, archiveVars, downloadVars>>)
    \/ (LinkDyLib /\ UNCHANGED <<buildVars, versionVars, orderVars, archiveVars, downloadVars>>)
    \/ (DyLibsDone /\ UNCHANGED <<buildVars, versionVars, orderVars, archiveVars, downloadVars>>)
    \/ (LinkArg /\ UNCHANGED <<buildVars, versionVars, orderVars, archiveVars, downloadVars>>)
    \/ (ArgsDone /\ UNCHANGED <<buildVars, versionVars, orderVars, archiveVars, downloadVars>>)

SpecLink == InitLink /\ [][NextLink]_vars


----------------------------------------------------------------------------
(* Properties of linking *)

\* a directive without the note of which statement printed it
Bare(d) == [dir |-> d.dir, kind |-> d.kind, name |-> d.name]
BareOut == [k \in 1..Len(out) |-> Bare(out[k])]
Dynamic(n) == [dir |-> "lib", kind |-> "dylib", name |-> n]
Static(n) == [dir |-> "lib", kind |-> "static", name |-> n]
Framework(n) == [dir |-> "lib", kind |-> "framework", name |-> n]
Search(kind, path) == [dir |-> "search", kind |-> kind, name |-> path]

\* a token that begins with the two characters a, b; and what follows them
HasPrefix(t, a, b) == Len(t) >= 2 /\ t[1] = a /\ t[2] = b
After2(t) == [k \in 1..(Len(t) - 2) |-> t[k + 2]]

\* the tokens of the primary link-argument string that link read
PrimaryTokens == split_ascii_whitespace(args)

\* every token is -l.., -L.., -F.., -W.., or -framework with a name after it
RECURSIVE WellFormed(_)
WellFormed(ts) ==
    \/ ts = <<>>
    \/ /\ ts[1] = FRAMEWORK
       /\ Len(ts) >= 2
       /\ WellFormed(SubSeq(ts, 3, Len(ts)))
    \/ /\ ts[1] # FRAMEWORK
       /\ \E c \in {"l", "L", "F", "W"} : HasPrefix(ts[1], "-", c)
       /\ WellFormed(Tail(ts))

\* the directives the tokens stand for, in token order
RECURSIVE TokenDirectives(_)
TokenDirectives(ts) ==
    IF ts = <<>> THEN <<>>
    ELSE IF ts[1] = FRAMEWORK
    THEN <<Framework(ts[2])>> \o TokenDirectives(SubSeq(ts, 3, Len(ts)))
    ELSE (IF HasPrefix(ts[1], "-", "l")
              /\ After2(ts[1]) # ruby_lib /\ After2(ts[1]) \notin dy_libs
          THEN <<Dynamic(After2(ts[1]))>>
          ELSE IF HasPrefix(ts[1], "-", "L") THEN <<Search("native", After2(ts[1]))>>
          ELSE IF HasPrefix(ts[1], "-", "F") THEN <<Search("framework", After2(ts[1]))>>
          ELSE <<>>)
         \o TokenDirectives(Tail(ts))

\* link has come to its end on a POSIX-style target, past all its queries, with
\* a primary string of well-formed tokens
PosixWellFormedRun ==
    /\ lpc = "done"
    /\ ruby_lib # <<>>
    /\ ~TargetIsMsvc(target)
    /\ WellFormed(PrimaryTokens)

\* the directives from position k on are the runtime's library, the members of
\* dy_libs as Dynamic in some order, and then those of the tokens
LibrariesThenTokens(k) ==
    LET n == Cardinality(dy_libs) IN
    /\ Len(out) >= k + n
    /\ BareOut[k] \in {Static(ruby_lib), Dynamic(ruby_lib)}
    /\ {BareOut[j] : j \in (k + 1)..(k + n)} = {Dynamic(l) : l \in dy_libs}
    /\ SubSeq(BareOut, k + n + 1, Len(out)) = TokenDirectives(PrimaryTokens)

ExampleRun ==
    /\ lpc = "done"
    /\ ruby_lib # <<>>
    /\ ~TargetIsMsvc(target)
    /\ args = ExamplePrimary /\ ~static_lib /\ so_libs = <<>> /\ aux_libs = <<"-", "l", "m">>

\* C16 as stated: the sequence begins with the runtime's own library
C16_LibraryFirst ==
    /\ PosixWellFormedRun => (lresult = LinkOk /\ LibrariesThenTokens(1))
    /\ ExampleRun =>
        BareOut = <<Dynamic(<<"r", "u", "b", "y">>), Dynamic(<<"m">>), Search("native", <<"/", "u", "s", "r", "/", "l", "i", "b">>),
                    Framework(<<"C", "o", "r", "e", "F", "o", "u", "n", "d", "a", "t", "i", "o", "n">>)>>

\* C16: on a POSIX-style target with well-formed primary tokens link succeeds
\* and prints exactly: the native search path of ruby's lib directory, the
\* runtime's library, each member of dy_libs as Dynamic, then the directives of
\* the primary tokens in token order (-W and covered -l tokens give none).
C16_SearchPathThenLibraries ==
    /\ PosixWellFormedRun =>
        /\ lresult = LinkOk
        /\ BareOut[1] = Search("native", LibDir)
        /\ LibrariesThenTokens(2)
    /\ ExampleRun =>
        BareOut = <<Search("native", LibDir), Dynamic(<<"r", "u", "b", "y">>), Dynamic(<<"m">>),
                    Search("native", <<"/", "u", "s", "r", "/", "l", "i", "b">>), Framework(<<"C", "o", "r", "e", "F", "o", "u", "n", "d", "a", "t", "i", "o", "n">>)>>

C16_Witness ==
    /\ ExampleRun
    /\ lresult = LinkOk
    /\ Len(out) = 5


\* the token link dispatches next is -l<name>
AtLibToken ==
    /\ lpc = "args_iter"
    /\ args_iter # <<>>
    /\ HasPrefix(Head(args_iter), "-", "l")

C17_Step ==
    AtLibToken =>
        LET name == After2(Head(args_iter)) IN
        IF name \in dy_libs \/ name = ruby_lib
        THEN out' = out
        ELSE out' = Append(out, LinkLib("dylib", name, "args"))

\* C17: in the walk over the primary string a token -l<name> prints Dynamic(name),
\* unless name is in dy_libs or is the runtime's own library name: then it
\* prints nothing.
C17_LibTokenUnlessCovered == [][C17_Step]_vars

\* -lruby is passed over and -lm is printed
C17_Witness ==
    /\ lpc = "done" /\ lresult = LinkOk
    /\ args = Join(<<<<"-", "l", "r", "u", "b", "y">>, <<"-", "l", "m">>>>)
    /\ BareOut = <<Search("native", LibDir), Dynamic(<<"r", "u", "b", "y">>), Dynamic(<<"m">>)>>
    /\ out[3].by = "args"


\* the primary link-argument string of the ruby at hand has nothing but
\* whitespace in it
BlankPrimary ==
    /\ lpc # "start"
    /\ \A k \in 1..Len(rbconfig[ArgsKey(static_lib)]) :
          rbconfig[ArgsKey(static_lib)][k] \in Whitespace

\* C18 as stated: with a blank primary string link always ends in MissingLibs
C18_AlwaysMissingLibs ==
    (BlankPrimary /\ lpc = "done") => lresult = MissingLibs(static_lib)

\* os_helper let link pass and both the target and the primary string were read
PrimaryRead ==
    /\ Len(queries) >= 2
    /\ ~(Len(queries) = 2 /\ lresult = LinkErr("Exec"))

\* C18: when os_helper succeeds and ruby answers for target and for the primary
\* key, a blank primary string makes link return MissingLibs with static_lib in
\* it, for both values of static_lib and every target, before SOLIBS or the
\* auxiliary libs are asked for; link goes no further with a blank primary.
C18_BlankPrimaryMissingLibs ==
    BlankPrimary =>
        /\ lpc \in {"os_helper", "target", "args", "done"}
        /\ PrimaryRead =>
            /\ lpc = "done"
            /\ lresult = MissingLibs(static_lib)
            /\ queries = <<"target", ArgsKey(static_lib)>>
            /\ BareOut = <<Search("native", LibDir)>>

C18_Witness ==
    /\ BlankPrimary /\ PrimaryRead
    /\ rbconfig[ArgsKey(static_lib)] = <<" ", "\n">>
    /\ static_lib /\ lenv.linux /\ TargetIsMsvc(target)
    /\ lresult = MissingLibs(TRUE)


\* the tokens of SOLIBS and of the auxiliary libs that link read
LibTokensRead ==
    Range(split_ascii_whitespace(so_libs)) \cup Range(split_ascii_whitespace(aux_libs))

\* a token that ends in .lib
HasLibSuffix(t) == Len(t) >= 4 /\ SubSeq(t, Len(t) - 3, Len(t)) = <<".", "l", "i", "b">>

\* the libraries SOLIBS and the auxiliary libs name: -l<name> on a POSIX-style
\* target, <name>.lib on an MSVC-style one
NamedLibs ==
    IF TargetIsMsvc(target)
    THEN {SubSeq(t, 1, Len(t) - 4) : t \in {u \in LibTokensRead : HasLibSuffix(u)}}
    ELSE {After2(t) : t \in {u \in LibTokensRead : HasPrefix(u, "-", "l")}}

\* the loop over dy_libs has come to its end
DyLibsLinked == lpc = "args_iter" \/ (lpc = "done" /\ ruby_lib # <<>>)

\* the places of out where the loop over dy_libs printed the library n
PrintedByDyLibs(n) == {k \in 1..Len(out) : out[k].by = "dy_libs" /\ out[k].name = n}

\* C19: once the loop over dy_libs is over, every library named in SOLIBS or in
\* the auxiliary libs has been printed by it exactly once, however often it is
\* listed, and everything the loop printed is Dynamic, also when static_lib holds.
C19_AlreadyLinkedOnceDynamic ==
    DyLibsLinked =>
        /\ NamedLibs \subseteq dy_libs
        /\ \A n \in dy_libs : Cardinality(PrintedByDyLibs(n)) = 1
        /\ \A k \in 1..Len(out) :
              out[k].by = "dy_libs" => (out[k].dir = "lib" /\ out[k].kind = "dylib")

C19_Witness ==
    /\ lpc = "done" /\ lresult = LinkOk /\ static_lib
    /\ so_libs = Join(<<<<"-", "l", "m">>, <<"-", "l", "m">>>>) /\ aux_libs = <<"-", "l", "m">>
    /\ BareOut = <<Search("native", LibDir), Static(<<"r", "u", "b", "y", "-", "s", "t", "a", "t", "i", "c">>), Dynamic(<<"m">>)>>

\* the places of out where the runtime's own library is printed
RuntimeLibraryPrinted ==
    {k \in 1..Len(out) : out[k].dir = "lib" /\ out[k].name = ruby_lib}

\* C20: link prints the runtime's own library exactly once, as Static when
\* static_lib holds and as Dynamic when not, and asks for the primary string
\* under LIBRUBYARG_STATIC when static_lib holds and LIBRUBYARG_SHARED when not.
C20_RuntimeLibraryOnce ==
    /\ Len(queries) >= 2 =>
          /\ queries[2] = (IF static_lib THEN "LIBRUBYARG_STATIC" ELSE "LIBRUBYARG_SHARED")
          /\ \A k \in 3..Len(queries) : queries[k] \notin {"LIBRUBYARG_STATIC", "LIBRUBYARG_SHARED"}
    /\ (lpc = "done" /\ lresult = LinkOk) =>
          /\ Cardinality(RuntimeLibraryPrinted) = 1
          /\ \A k \in RuntimeLibraryPrinted :
                out[k].kind = (IF static_lib THEN "static" ELSE "dylib")


\* the token link dispatches next is -framework
AtFrameworkToken ==
    /\ lpc = "args_iter"
    /\ args_iter # <<>>
    /\ Head(args_iter) = FRAMEWORK

C21_Step ==
    AtFrameworkToken =>
        IF Len(args_iter) = 1
        THEN /\ lresult' = LinkErrArgs("MissingFramework", args)
             /\ lpc' = "done"
             /\ out' = out
        ELSE /\ out' = Append(out, LinkLib("framework", args_iter[2], "args"))
             /\ args_iter' = SubSeq(args_iter, 3, Len(args_iter))
             /\ lpc' = "args_iter"
             /\ lresult' = lresult

\* C21: the token -framework takes the token after it as the framework's name
\* and prints Framework(name), and the token taken is not dispatched itself, even
\* when it looks like a flag; as the last token it makes link return
\* MissingFramework.
C21_FrameworkTakesNext == [][C21_Step]_vars

\* -framework took -lm as a name: Framework(-lm) and no Dynamic(m)
C21_Witness ==
    /\ lpc = "done" /\ lresult = LinkOk
    /\ args = Join(<<FRAMEWORK, <<"-", "l", "m">>>>)
    /\ BareOut = <<Search("native", LibDir), Dynamic(<<"r", "u", "b", "y">>), Framework(<<"-", "l", "m">>)>>


\* a token of one of the shapes -l.., -L.., -F.., -W..
FlagShaped(t) == \E c \in {"l", "L", "F", "W"} : HasPrefix(t, "-", c)

\* the place, from k on, of the first token that link has no rule for: 0 when
\* there is none, Len(ts) + 1 when -framework is the last token
RECURSIVE Offender(_, _)
Offender(ts, k) ==
    IF k > Len(ts) THEN 0
    ELSE IF ts[k] = FRAMEWORK
    THEN (IF k = Len(ts) THEN Len(ts) + 1 ELSE Offender(ts, k + 2))
    ELSE IF FlagShaped(ts[k]) THEN Offender(ts, k + 1)
    ELSE k

\* link has come to its end on a POSIX-style target, past all its queries
PosixRun ==
    /\ lpc = "done"
    /\ ruby_lib # <<>>
    /\ ~(contains(target, MSVC) \/ contains(target, MSWIN))

\* the strings the error value that link returned carries
Carried == {lresult.args}

\* link stopped at the token at place k: the tokens after it are left in
\* args_iter, and what the walk printed is what the tokens before it stand for
StoppedAt(k) ==
    /\ lresult.tag = "Err" /\ lresult.error = "UnknownFlags"
    /\ args_iter = SubSeq(PrimaryTokens, k + 1, Len(PrimaryTokens))
    /\ SubSeq(BareOut, 3 + Cardinality(dy_libs), Len(out))
          = TokenDirectives(SubSeq(PrimaryTokens, 1, k - 1))

\* C22 as stated: the error carries the offending token and the whole string
C22_CarriesTokenAndString ==
    PosixRun =>
        LET k == Offender(PrimaryTokens, 1) IN
        /\ k \in 1..Len(PrimaryTokens) =>
              (StoppedAt(k) /\ {PrimaryTokens[k], args} \subseteq Carried)
        /\ lresult.error = "UnknownFlags" => k \in 1..Len(PrimaryTokens)

\* C22: a token of the primary string that is neither -l.., -L.., -F.., -W.. nor
\* -framework makes link return UnknownFlags, which carries the whole primary
\* string and nothing else; no token after the offending one is processed.
C22_UnknownFlagsCarriesString ==
    PosixRun =>
        LET k == Offender(PrimaryTokens, 1) IN
        /\ k \in 1..Len(PrimaryTokens) => (StoppedAt(k) /\ Carried = {args})
        /\ lresult.error = "UnknownFlags" => k \in 1..Len(PrimaryTokens)

C22_Witness ==
    /\ PosixRun
    /\ args = Join(<<<<"-", "L", "/", "u", "s", "r", "/", "l", "i", "b">>, <<"C", "o", "r", "e", "F", "o", "u", "n", "d", "a", "t", "i", "o", "n">>>>)
    /\ lresult = LinkErrArgs("UnknownFlags", args)
    /\ BareOut = <<Search("native", LibDir), Dynamic(<<"r", "u", "b", "y">>), Search("native", <<"/", "u", "s", "r", "/", "l", "i", "b">>)>>


\* the target that link read is MSVC-style
MsvcStyle == contains(target, MSVC) \/ contains(target, MSWIN)

\* C23: on an MSVC-style target link never walks the primary string: nothing is
\* printed for a token of it, neither UnknownFlags nor MissingFramework is
\* returned, and once the loop over dy_libs is over link returns Ok with the
\* search path of the lib directory, the runtime's library and the members of
\* dy_libs as all it printed.
C23_MsvcStopsAfterDyLibs ==
    MsvcStyle =>
        /\ lpc # "args_iter"
        /\ args_iter = <<>>
        /\ \A k \in 1..Len(out) : out[k].by # "args"
        /\ lresult.error \notin {"UnknownFlags", "MissingFramework"}
        /\ (lpc = "done" /\ ruby_lib # <<>>) =>
              /\ lresult = LinkOk
              /\ Len(out) = 2 + Cardinality(dy_libs)
              /\ BareOut[2] \in {Static(ruby_lib), Dynamic(ruby_lib)}
              /\ {BareOut[j] : j \in 3..Len(out)} = {Dynamic(l) : l \in dy_libs}

\* a primary string that no POSIX-style target would get through
C23_Witness ==
    /\ MsvcStyle /\ contains(target, MSWIN)
    /\ lpc = "done" /\ lresult = LinkOk
    /\ args = Join(<<<<"x">>, FRAMEWORK>>)
    /\ so_libs = <<"m", ".", "l", "i", "b">>
    /\ BareOut = <<Search("native", LibDir), Dynamic(<<"r", "u", "b", "y">>), Dynamic(<<"m">>)>>

\* a directive that names a library
IsLib(d) == d.dir = "lib"

\* the place in out of what the tokens up to the j-th stand for, when link ran
\* through all of them; a -framework still without its name stands for nothing
PlaceOf(j) ==
    LET upto == SubSeq(PrimaryTokens, 1, j)
        whole == IF j >= 1 /\ Offender(upto, 1) = j + 1 THEN SubSeq(upto, 1, j - 1) ELSE upto
    IN  2 + Cardinality(dy_libs) + Len(TokenDirectives(whole))

\* the places of the primary string that are dispatched as a search path, and
\* those at which a library directive is complete (a -l token that is not
\* covered, the name after -framework)
SearchPlaces ==
    {i \in 1..Len(PrimaryTokens) :
        /\ Offender(SubSeq(PrimaryTokens, 1, i), 1) = 0
        /\ PlaceOf(i) = PlaceOf(i - 1) + 1
        /\ \E c \in {"L", "F"} : HasPrefix(PrimaryTokens[i], "-", c)}
LibPlaces ==
    {j \in 1..Len(PrimaryTokens) :
        /\ Offender(SubSeq(PrimaryTokens, 1, j), 1) = 0
        /\ PlaceOf(j) = PlaceOf(j - 1) + 1
        /\ j \notin SearchPlaces}

\* C24: the first directive link prints is the native search path of ruby's lib
\* directory, so it comes before the runtime's library and every other library;
\* and in a walk through the whole primary string the search path of a -L or -F
\* token is printed before the library of every -l or -framework after it.
C24_SearchPathsFirst ==
    /\ out # <<>> =>
          /\ Bare(out[1]) = Search("native", LibDir)
          /\ \A k \in 1..Len(out) : IsLib(out[k]) => k > 1
    /\ (PosixRun /\ lresult = LinkOk) =>
          \A i \in SearchPlaces, j \in LibPlaces :
              i < j =>
                  /\ out[PlaceOf(i)].dir = "search"
                  /\ out[PlaceOf(i)].name = After2(PrimaryTokens[i])
                  /\ IsLib(out[PlaceOf(j)])
                  /\ out[PlaceOf(j)].name \in {After2(PrimaryTokens[j]), PrimaryTokens[j]}
                  /\ PlaceOf(i) < PlaceOf(j)

C24_Witness ==
    /\ PosixRun /\ lresult = LinkOk
    /\ args = ExamplePrimary
    /\ 3 \in SearchPlaces /\ 5 \in LibPlaces
    /\ Bare(out[PlaceOf(3)]) = Search("native", <<"/", "u", "s", "r", "/", "l", "i", "b">>)
    /\ Bare(out[PlaceOf(5)]) = Framework(<<"C", "o", "r", "e", "F", "o", "u", "n", "d", "a", "t", "i", "o", "n">>)

\* C28: link never aborts the process: it returns Ok or a RubyLinkError
C28_NeverPanics == lresult.tag # "panic"


----------------------------------------------------------------------------
(* Unpacking: how _unpack tells the directories of an archive from its files *)

\* tar::EntryType, as far as is_dir tells its values apart
EntryTypes == {"Regular", "Directory", "Symlink", "Link"}

\* bytes of a name
NameBytes == {"/", "a", "."}

\* n bytes b
Fill(b, n) == [k \in 1..n |-> b]

\* a name, its terminator, and whatever the rest of the field holds
Terminated(c, f) == c \o <<NUL>> \o Fill(f, NameWidth - Len(c) - 1)

\* name fields with a terminator: a short name and then zeros or leftovers
TerminatedNames ==
    {Terminated(c, f) : c \in SeqsUpTo(NameBytes, MaxName), f \in {NUL, "a", "/"}}

\* name fields filled to the last byte, with no terminator
FullNames == {Fill("a", NameWidth - Len(c)) \o c : c \in SeqsUpTo(NameBytes, MaxName)}

\* the names of the two examples
FooBarSlash == Terminated(<<"f", "o", "o", "/", "b", "a", "r", "/">>, NUL)
FooBarTxt == Terminated(<<"f", "o", "o", "/", "b", "a", "r", ".", "t", "x", "t">>, NUL)

Headers ==
    [entry_type : EntryTypes,
     name : TerminatedNames \cup FullNames \cup {FooBarSlash, FooBarTxt}]

\* a plausible slip: the byte at the terminator's place is looked at
ends_with_slash_at(name) ==
    LET i == memchr(NUL, name) - 1
    IN  IF i >= 0 THEN {IsDirRet(name[i + 1] = "/")}
        ELSE {IsDirRet(FALSE)}

\* archive::ends_with_slash, as the set of what a build of it can do: the
\* subtraction i - 1 underflows for i = 0, which panics where overflow is
\* checked and wraps elsewhere, and get() on the wrapped index gives None
ends_with_slash(name) ==
    LET i == memchr(NUL, name) - 1
    IN  IF i >= 0
        THEN IF i = 0 THEN {IsDirPanic, IsDirRet(FALSE)}
             ELSE {IsDirRet(name[i] = "/")}
        ELSE {IsDirRet(FALSE)}

\* archive::is_dir
is_dir(h) ==
    CASE h.entry_type = "Regular" -> ends_with_slash(h.name)
      [] h.entry_type = "Directory" -> {IsDirRet(TRUE)}
      [] OTHER -> {IsDirRet(FALSE)}

\* let header = entry.header()
NextEntry ==
    /\ apc = "start"
    /\ \E h \in Headers : header' = h
    /\ apc' = "entry"
    /\ UNCHANGED <<is_dir_ret, made>>

\* is_dir(&header)
IsDir ==
    /\ apc = "entry"
    /\ \E r \in is_dir(header) :
          /\ is_dir_ret' = r
          /\ apc' = IF r = IsDirPanic THEN "done" ELSE "is_dir"
    /\ UNCHANGED <<header, made>>

\* fs::create_dir_all(&path_buf) or entry.unpack(&path_buf)
UnpackEntry ==
    /\ apc = "is_dir"
    /\ made' = IF is_dir_ret.val THEN "dir" ELSE "file"
    /\ apc' = "done"
    /\ UNCHANGED <<header, is_dir_ret>>

InitArchive ==
    ArchiveIdle /\ BuildIdle /\ VersionIdle /\ OrderIdle /\ LinkIdle /\ DownloadIdle

NextArchive ==
    \/ (NextEntry /\ UNCHANGED <<buildVars, versionVars, orderVars, linkVars, downloadVars>>)
    \/ (IsDir /\ UNCHANGED <<buildVars, versionVars, orderVars, linkVars, downloadVars>>)
    \/ (UnpackEntry /\ UNCHANGED <<buildVars, versionVars, orderVars, linkVars, downloadVars>>)

SpecArchive == InitArchive /\ [][NextArchive]_vars

----------------------------------------------------------------------------
(* Properties of unpacking *)

\* is_dir has returned for the entry at hand
Classified == is_dir_ret.tag = "ret"

\* the places of the name field that hold the zero byte
NulPlaces == {k \in 1..NameWidth : header.name[k] = NUL}

\* the length of the name: the number of bytes before the first zero byte
NameLen ==
    IF NulPlaces = {} THEN NameWidth
    ELSE (CHOOSE k \in NulPlaces : \A j \in NulPlaces : k <= j) - 1

\* C25: is_dir is true for every entry declared a directory; for an entry
\* declared a regular file whose name has a terminator and at least one byte it
\* is true iff the byte before the first terminator is '/'; for every other
\* declared kind it is false, whatever the name is.
C25_IsDirByKindAndName ==
    Classified =>
        /\ header.entry_type = "Directory" => is_dir_ret.val
        /\ (header.entry_type = "Regular" /\ NulPlaces # {} /\ NameLen >= 1)
              => (is_dir_ret.val <=> header.name[NameLen] = "/")
        /\ header.entry_type \notin {"Regular", "Directory"} => ~is_dir_ret.val
        /\ (header.entry_type = "Regular" /\ header.name = FooBarSlash) => is_dir_ret.val
        /\ (header.entry_type = "Regular" /\ header.name = FooBarTxt) => ~is_dir_ret.val

C25_Witness ==
    /\ apc = "done"
    /\ header = [entry_type |-> "Regular", name |-> FooBarSlash]
    /\ is_dir_ret = IsDirRet(TRUE)
    /\ made = "dir"

\* C26: for an entry declared a regular file whose name fills the whole field,
\* with no terminator, is_dir is true iff the last byte of the field is '/'.
C26_FullNameByLastByte ==
    (Classified /\ header.entry_type = "Regular" /\ NulPlaces = {})
        => (is_dir_ret.val <=> header.name[NameWidth] = "/")


----------------------------------------------------------------------------
(* Downloading: RubySrcDownloader, its options and the steps of download *)

\* what a path can hold: nothing, a file or directory cut short, or all of it
Contents == {"absent", "partial", "whole"}

\* the errors of download
DownloadErrors ==
    {"MissingCache", "OpenArchive", "CreateArchiveDir", "CreateArchive",
     "RequestArchive", "UnpackArchive"}

\* a plausible slip: the existing directory is returned whatever the option says
ReuseExistingAlways(d, sd) == sd # "absent"

\* !self.ignore_existing_dir && src_dir.exists()
ReuseExisting(d, sd) == ~d.ignore_existing_dir /\ sd # "absent"

\* a plausible slip: the option decides for the temporary directory too
ignore_existing_by_option(d) == d.ignore_cache

\* the second component of (archive_dir, ignore_existing)
ignore_existing(d) == IF d.cache THEN d.ignore_cache ELSE TRUE

\* a plausible slip: the handle is forgotten and the archive stays
drop_forgotten(guard, dir, files) == files

\* Drop for RemoveFileHandle, when there is a handle: fs::remove_file(self.file),
\* taken to remove the file when there is one
drop(guard, dir, files) == IF guard THEN [files EXCEPT ![dir] = "absent"] ELSE files

\* download returns r: its locals are dropped, the handle among them
DownloadReturn(r, files) ==
    /\ dresult' = r
    /\ archives' = drop(remove_archive, archive_dir, files)
    /\ dpc' = "done"

\* pub fn ignore_existing_dir(mut self) -> Self
IgnoreExistingDir ==
    /\ dpc = "start"
    /\ downloader' = [downloader EXCEPT !.ignore_existing_dir = TRUE]
    /\ UNCHANGED <<dpc, src_dir, archives, cache_home, archive_dir, remove_archive,
                   dev, dresult, dstart, dcalls>>

\* pub fn ignore_cache(mut self) -> Self
IgnoreCache ==
    /\ dpc = "start"
    /\ downloader' = [downloader EXCEPT !.ignore_cache = TRUE]
    /\ UNCHANGED <<dpc, src_dir, archives, cache_home, archive_dir, remove_archive,
                   dev, dresult, dstart, dcalls>>

\* pub fn cache(mut self) -> Self
Cache ==
    /\ dpc = "start"
    /\ downloader' = [downloader EXCEPT !.cache = TRUE]
    /\ UNCHANGED <<dpc, src_dir, archives, cache_home, archive_dir, remove_archive,
                   dev, dresult, dstart, dcalls>>

\* pub fn cache_dir(mut self, path) -> Self: sets the directory and calls cache()
CacheDir ==
    /\ dpc = "start"
    /\ downloader' = [downloader EXCEPT !.cache_dir = TRUE, !.cache = TRUE]
    /\ UNCHANGED <<dpc, src_dir, archives, cache_home, archive_dir, remove_archive,
                   dev, dresult, dstart, dcalls>>

\* download, up to the early return for existing sources
Download ==
    /\ dpc = "start"
    /\ dcalls < MaxDownloads
    /\ dcalls' = dcalls + 1
    /\ dstart' = [src_dir |-> src_dir, archives |-> archives]
    /\ dev' = <<>>
    /\ IF ReuseExisting(downloader, src_dir)
       THEN dresult' = DlOk /\ dpc' = "done"
       ELSE dresult' = dresult /\ dpc' = "archive_dir"
    /\ UNCHANGED <<downloader, src_dir, archives, cache_home, archive_dir, remove_archive>>

\* the directory the archive goes to, fs::create_dir_all on it, and the handle
\* that removes the archive
ArchiveDir ==
    /\ dpc = "archive_dir"
    /\ IF downloader.cache /\ ~downloader.cache_dir /\ ~cache_home
       THEN /\ dresult' = DlErr("MissingCache")
            /\ dpc' = "done"
            /\ UNCHANGED <<archive_dir, remove_archive, dev>>
       ELSE LET dir == IF downloader.cache
                       THEN IF downloader.cache_dir THEN "given" ELSE "cache"
                       ELSE "temp"
            IN  /\ archive_dir' = dir
                /\ \/ /\ dev' = Append(dev, "create_dir_all")
                      /\ remove_archive' = ~downloader.cache
                      /\ dpc' = "archive"
                      /\ UNCHANGED dresult
                   \/ /\ archives[dir] = "absent"
                      /\ dresult' = DlErr("CreateArchiveDir")
                      /\ dpc' = "done"
                      /\ UNCHANGED <<remove_archive, dev>>
    /\ UNCHANGED <<downloader, src_dir, archives, cache_home, dstart, dcalls>>

\* the archive is downloaded (_download, _read_response) or the one at hand opened
OpenOrDownload ==
    /\ dpc = "archive"
    /\ IF ignore_existing(downloader) \/ archives[archive_dir] = "absent"
       THEN \/ /\ DownloadReturn(DlErr("RequestArchive"), archives)
               /\ dev' = Append(dev, "request")
            \/ /\ DownloadReturn(DlErr("CreateArchive"), archives)
               /\ dev' = Append(dev, "request")
            \/ /\ DownloadReturn(DlErr("CreateArchive"),
                                 [archives EXCEPT ![archive_dir] = "partial"])
               /\ dev' = Append(dev, "request")
            \/ /\ archives' = [archives EXCEPT ![archive_dir] = "whole"]
               /\ dev' = Append(dev, "request")
               /\ dpc' = "unpack"
               /\ UNCHANGED dresult
       ELSE \/ /\ DownloadReturn(DlErr("OpenArchive"), archives)
               /\ UNCHANGED dev
            \/ /\ dev' = Append(dev, "open")
               /\ dpc' = "unpack"
               /\ UNCHANGED <<archives, dresult>>
    /\ UNCHANGED <<downloader, src_dir, cache_home, archive_dir, remove_archive,
                   dstart, dcalls>>

\* file.unpack(&self.dst_dir), drop(remove_archive) and the return
Unpack ==
    /\ dpc = "unpack"
    /\ dev' = Append(dev, "unpack")
    /\ \/ /\ archives[archive_dir] = "whole"
          /\ src_dir' = "whole"
          /\ DownloadReturn(DlOk, archives)
       \/ /\ \E sd \in {src_dir, "partial"} : src_dir' = sd
          /\ DownloadReturn(DlErr("UnpackArchive"), archives)
    /\ UNCHANGED <<downloader, cache_home, archive_dir, remove_archive, dstart, dcalls>>

\* RubySrcDownloader::new, for the next call
NewDownloader ==
    /\ dpc = "done"
    /\ dcalls < MaxDownloads
    /\ downloader' = NewDownloaderFields
    /\ dresult' = DlNoResult
    /\ remove_archive' = FALSE
    /\ dpc' = "start"
    /\ UNCHANGED <<src_dir, archives, cache_home, archive_dir, dev, dstart, dcalls>>

InitDownload ==
    /\ dpc = "start"
    /\ downloader = NewDownloaderFields
    /\ src_dir \in {"absent", "whole"}
    /\ archives \in [ArchiveDirs -> {"absent", "whole"}]
    /\ cache_home \in BOOLEAN
    /\ archive_dir = "temp"
    /\ remove_archive = FALSE
    /\ dev = <<>>
    /\ dresult = DlNoResult
    /\ dstart = [src_dir |-> src_dir, archives |-> archives]
    /\ dcalls = 0
    /\ BuildIdle /\ VersionIdle /\ OrderIdle /\ LinkIdle /\ ArchiveIdle

NextDownload ==
    \/ (IgnoreExistingDir /\ UNCHANGED <<buildVars, versionVars, orderVars, linkVars, archiveVars>>)
    \/ (IgnoreCache /\ UNCHANGED <<buildVars, versionVars, orderVars, linkVars, archiveVars>>)
    \/ (Cache /\ UNCHANGED <<buildVars, versionVars, orderVars, linkVars, archiveVars>>)
    \/ (CacheDir /\ UNCHANGED <<buildVars, versionVars, orderVars, linkVars, archiveVars>>)
    \/ (Download /\ UNCHANGED <<buildVars, versionVars, orderVars, linkVars, archiveVars>>)
    \/ (ArchiveDir /\ UNCHANGED <<buildVars, versionVars, orderVars, linkVars, archiveVars>>)
    \/ (OpenOrDownload /\ UNCHANGED <<buildVars, versionVars, orderVars, linkVars, archiveVars>>)
    \/ (Unpack /\ UNCHANGED <<buildVars, versionVars, orderVars, linkVars, archiveVars>>)
    \/ (NewDownloader /\ UNCHANGED <<buildVars, versionVars, orderVars, linkVars, archiveVars>>)

SpecDownload == InitDownload /\ [][NextDownload]_vars

----------------------------------------------------------------------------
(* Properties of downloading *)

\* download has returned
DownloadReturned == dpc = "done"

\* what download did, as a set
Did == Range(dev)

\* C27: when caching is not enabled, every return of download that comes after
\* the archive directory was created (a failed request, a failed write of the
\* archive, a failed unpack, a successful unpack) leaves no archive file at the
\* temporary archive path.
C27_TemporaryArchiveRemoved ==
    (DownloadReturned /\ ~downloader.cache /\ "create_dir_all" \in Did)
        => archives["temp"] = "absent"

C27_Witness ==
    /\ DownloadReturned
    /\ ~downloader.cache
    /\ dev = <<"create_dir_all", "request", "unpack">>
    /\ dresult = DlErr("UnpackArchive")
    /\ dstart.archives["temp"] = "whole"
    /\ archives["temp"] = "absent"

\* the sources directory existed, the option was not set, and download
\* returned Ok having done nothing
ReusedAtOnce ==
    (dstart.src_dir # "absent" /\ ~downloader.ignore_existing_dir)
        => /\ dresult = DlOk
           /\ dev = <<>>
           /\ src_dir = dstart.src_dir
           /\ archives = dstart.archives

\* the errors download can return before it has an archive directory
EarlyErrors == {DlErr("MissingCache"), DlErr("CreateArchiveDir")}

\* C30 as stated: existing sources are returned at once when ignore_existing_dir
\* was not set, and with ignore_existing_dir set download always unpacks.
C30_AlwaysUnpacks ==
    DownloadReturned =>
        /\ ReusedAtOnce
        /\ downloader.ignore_existing_dir => "unpack" \in Did

\* C30: when the sources directory exists and ignore_existing_dir was not set,
\* download returns Ok at once: no archive directory is created, nothing is
\* requested, opened or unpacked, and no file changes. When ignore_existing_dir
\* was set, the existing directory is never returned as it is: download goes on
\* to the archive directory, fails with one of its errors or unpacks, and
\* returns Ok only after unpacking into dst_dir.
C30_ReusesExistingSources ==
    DownloadReturned =>
        /\ ReusedAtOnce
        /\ downloader.ignore_existing_dir =>
              /\ "create_dir_all" \in Did \/ dresult \in EarlyErrors
              /\ "unpack" \in Did \/ dresult \in {DlErr(e) : e \in DownloadErrors}
              /\ dresult = DlOk => ("unpack" \in Did /\ src_dir = "whole")

C30_Witness ==
    /\ DownloadReturned
    /\ dstart.src_dir = "whole"
    /\ downloader.ignore_existing_dir
    /\ dresult = DlOk
    /\ "unpack" \in Did


\* download has been through the choice between a request and the archive at hand
PastArchive == "create_dir_all" \in Did /\ dpc \in {"unpack", "done"}

\* the archive file that was at the archive path when download was called
ArchiveAtHand == dstart.archives[archive_dir]

C34_PartialArchiveNotReused ==
    (PastArchive /\ downloader.cache /\ ~downloader.ignore_cache
        /\ ArchiveAtHand = "partial")
        => ("request" \in Did /\ "open" \notin Did)


----------------------------------------------------------------------------
(* Further properties of the build *)

\* the stages the current call executed, in order
StagesRun ==
    LET IsStage(e) == e.cmd \in Stages
        es == SelectSeq(events, IsStage)
    IN  [k \in 1..Len(es) |-> es[k].cmd]

\* the call got past its three stages
PastMake == pc = "version" \/ pc = "ok" \/ (pc = "err" /\ result.error = "Version")

OnlyForce(flag) == builder = [NewFlags EXCEPT ![flag] = TRUE]

\* C32: a stage is executed only if its marker was missing, its own force flag
\* is set, or an earlier stage executed in the same call; a force flag never
\* makes an earlier stage execute. With all markers present, the force flag of
\* make alone runs make and nothing else, and the force flag of configure alone
\* runs configure and then make.
C32_ForceNeverReachesBack ==
    /\ Ran("autoconf") => (builder.force_autoconf \/ ~start_fs["configure_path"])
    /\ Ran("configure") =>
          (Ran("autoconf") \/ builder.force_configure \/ ~start_fs["Makefile"])
    /\ Ran("make") =>
          (Ran("autoconf") \/ Ran("configure") \/ builder.force_make
              \/ ~start_fs["bin_path"])
    /\ (AllMarkersAtStart /\ OnlyForce("force_make")) =>
          /\ ~Ran("autoconf") /\ ~Ran("configure")
          /\ PastMake => StagesRun = <<"make">>
    /\ (AllMarkersAtStart /\ OnlyForce("force_configure")) =>
          /\ ~Ran("autoconf")
          /\ PastMake => StagesRun = <<"configure", "make">>

C32_Witness ==
    /\ pc = "ok"
    /\ ~target_msvc
    /\ AllMarkersAtStart
    /\ OnlyForce("force_make")
    /\ StagesRun = <<"make">>


\* the two errors of a stage
StageErrs(cmd) == {StageErr(cmd, "spawn_fail"), StageErr(cmd, "nonzero")}

\* the previous call failed at stage cmd
PrevFailedAt(cmd) == prev.result.tag = "Err" /\ prev.result.error \in StageErrs(cmd)

\* the current call failed at a stage before cmd
FailedBefore(cmd) ==
    /\ pc = "err"
    /\ \E c \in Stages : StageRank(c) < StageRank(cmd) /\ result.error \in StageErrs(c)

\* C33: when a build call failed at a stage, the next call on the same
\* directories with no force flag executes that stage again (unless it fails
\* before reaching it), whatever the markers and the force flags of the failed
\* call were.
C33_FailedStageRunsAgain ==
    \A S \in Stages :
        (calls >= 2 /\ PrevFailedAt(S) /\ builder = NewFlags /\ Returned)
            => (Ran(S) \/ FailedBefore(S))


----------------------------------------------------------------------------
(* Further properties of the ordering *)

\* Ordering::reverse
OrderingReverse(o) ==
    CASE o = "Less" -> "Greater" [] o = "Greater" -> "Less" [] o = "Equal" -> "Equal"

\* C35: cmp is a total order that agrees with ==: it answers Equal exactly for
\* two versions with the same four fields, the answer for (b, a) is the reverse
\* of the answer for (a, b), and it is transitive: when a compares to b as b
\* compares to any third version c, a compares to c the same way.
C35_TotalOrder ==
    opc = "compared" =>
        /\ ord \in {"Less", "Equal", "Greater"}
        /\ ord = "Equal" <=> va = vb
        /\ cmp(vb, va) = OrderingReverse(ord)
        /\ \A c \in OrdVersions : cmp(vb, c) = ord => cmp(va, c) = ord

C35_Witness ==
    /\ opc = "compared"
    /\ SameTriple(va, vb)
    /\ va.pre = Some(<<"r", "c", "1">>)
    /\ vb.pre = Some(<<"s">>)
    /\ ord = "Greater"
    /\ cmp(vb, Version(va.major, va.minor, va.teeny, Some(<<"d", "e", "v">>))) = "Greater"


----------------------------------------------------------------------------
(* Further properties of linking *)

\* the places of out that hold a library directive
LibraryPlaces == {k \in 1..Len(out) : out[k].dir = "lib"}

\* C36: in one run of link no library name is printed in more than one library
\* directive: not a name repeated in the primary string, and not the runtime's
\* own library when SOLIBS or the auxiliary libs list it too.
C36_NoLibraryTwice ==
    \A i, j \in LibraryPlaces : i # j => out[i].name # out[j].name

\* C37: every name in dy_libs, and so every Dynamic directive of the loop over
\* it, is the name part of a library token of SOLIBS or of the auxiliary libs
\* (-l<name> on a POSIX-style target, <name>.lib on an MSVC-style one); a token
\* of another shape puts nothing into dy_libs.
C37_OnlyLibraryTokensNamed ==
    DyLibsLinked =>
        /\ dy_libs \subseteq NamedLibs
        /\ \A k \in 1..Len(out) : out[k].by = "dy_libs" => out[k].name \in NamedLibs


----------------------------------------------------------------------------
(* Further properties of unpacking and of parsing *)

\* C38: for an entry declared a regular file whose name is empty (the first
\* byte of the field is the terminator) is_dir returns false, and does not fail.
C38_EmptyNameIsFile ==
    (apc \in {"is_dir", "done"} /\ header.entry_type = "Regular" /\ header.name[1] = NUL)
        => is_dir_ret = IsDirRet(FALSE)

\* a segment that is a number too large for a u16
TooLarge(g) == ~NonNumeric(g) /\ DecValue(g) > U16Max

\* the segments of a string, as many as it has dots and one more
SegmentsOf(t) ==
    IF Dots(t) = 0 THEN <<Seg1(t)>>
    ELSE IF Dots(t) = 1 THEN <<Seg1(t), Seg2(t)>>
    ELSE <<Seg1(t), Seg2(t), Seg3(t)>>

IntErrOf(k) == CASE k = 1 -> "MajorInt" [] k = 2 -> "MinorInt" [] k = 3 -> "TeenyInt"

\* C39: a segment whose value is greater than 65535 makes parse fail; when no
\* required segment is missing and the segments before it are numbers a u16
\* holds, the error is the Int error of its position, with the overflow inside.
\* A version that parse returns holds the decimal values of the segments, each
\* at most 65535: nothing is wrapped or truncated.
C39_SegmentsAreU16 ==
    vpc = "parsed" =>
        LET g == SegmentsOf(text)
        IN  /\ \A k \in 1..Len(g) :
                  TooLarge(g[k]) =>
                      /\ ~parsed.ok
                      /\ (RequiredSegmentsPresent /\ \A j \in 1..(k - 1) : Fits(g[j]))
                            => parsed = ParseErr(IntErrOf(k), "PosOverflow")
            /\ parsed.ok =>
                  /\ parsed.version.major = DecValue(g[1])
                  /\ Len(g) >= 2 => parsed.version.minor = DecValue(g[2])
                  /\ Len(g) >= 3 => parsed.version.teeny = DecValue(g[3])
                  /\ parsed.version.major <= U16Max
                  /\ parsed.version.minor <= U16Max
                  /\ parsed.version.teeny <= U16Max

C39_Witness ==
    /\ vpc = "parsed"
    /\ text = <<"1", ".", "2", ".", "6", "5", "5", "3", "7">>
    /\ parsed = ParseErr("TeenyInt", "PosOverflow")

====
